---- MODULE Spec2Model ----
(***************************************************************************)
(* mkv-factory: policy resolution and video pipeline sequencing.           *)
(*                                                                         *)
(* Three pieces of the repository are modelled:                            *)
(*   - configure_automated_run, in its two generations                     *)
(*       lib/config_automated.py  (dv_policy / hdr10plus_policy keys)      *)
(*       mkv_factory.py           (passthrough_convert_dv_to_p8 key)       *)
(*   - run_full_conversion (lib/processing.py, same code in                *)
(*       mkv_factory.py): audio/subtitle extraction, HDR10 tag file,       *)
(*       Profile 5 sanity check, the inline video paths, mkvmerge and      *)
(*       the cleanup / re-raise handling                                   *)
(*   - PassthroughStrategy.process and EncodeStrategy.process              *)
(*       (lib/processing_strategies.py)                                    *)
(* Every run_command call is one step whose exit status is chosen by the   *)
(* environment.                                                            *)
(***************************************************************************)
EXTENDS Integers, Sequences, FiniteSets, TLC

VARIABLES
    flow,               \* which caller drives this run
    streams,            \* what analizuj_plik returned for the source file
    profile_data,       \* the loaded profile.json
    config,             \* the config dict handed to the pipeline
    pc,                 \* position in the code
    strategy,           \* video path / strategy branch taken ("none" before)
    ops,                \* external commands issued so far, in order
    fs,                 \* files that exist on disk
    files_to_cleanup,   \* run_full_conversion: files_to_cleanup list
    temp_audio_files,   \* run_full_conversion: extracted audio temp paths
    temp_subtitle_files,\* run_full_conversion: extracted subtitle temp paths
    hdr_tags_xml_path,  \* run_full_conversion: XML tag file path or "None"
    use_hdr_tags_xml,   \* run_full_conversion: flag read by the mux step
    original_video_policy,  \* locals of the Profile 5 check
    original_convert_flag,
    override_needed,
    video_input_for_mux,
    map_str_for_mux,
    rpu_to_inject,      \* RPU file chosen for inject-rpu
    current_file,       \* current_file_in / current_file_to_inject
    temp_files,         \* VideoProcessor.temp_files
    result,             \* dict returned by process(), or NoResult
    deleted,            \* files removed by skasuj_plik, in order
    cleanup_arg,        \* lists handed to sprzataj_pliki, in order
    delete_warnings,    \* files sprzataj_pliki failed to delete (warned)
    error,              \* exception in flight / raised ("none" if none)
    outcome,            \* "running", "skipped", "success", "failed"
    n_files,            \* run_batch_processing: len(video_files)
    file_index,         \* run_batch_processing: files the loop is done with
    success_count,      \* run_batch_processing: success_count
    fail_count          \* run_batch_processing: fail_count

vars == <<flow, streams, profile_data, config, pc, strategy, ops, fs,
          files_to_cleanup, temp_audio_files, temp_subtitle_files,
          hdr_tags_xml_path, use_hdr_tags_xml, original_video_policy,
          original_convert_flag, override_needed, video_input_for_mux,
          map_str_for_mux, rpu_to_inject, current_file, temp_files, result,
          deleted, cleanup_arg, delete_warnings, error, outcome, n_files,
          file_index, success_count, fail_count>>

----------------------------------------------------------------------------
(* Bounds of the model *)

MaxAudio == 1       \* internal audio tracks selected per file: 0..MaxAudio
MaxSubs == 1        \* internal subtitle tracks selected per file: 0..MaxSubs
MaxFiles == 2       \* video files found in the source directory
MaxTracks == 2      \* internal tracks per kind in the muxing runs
MaxExternal == 1    \* external files per kind in the muxing runs

----------------------------------------------------------------------------
(* Values *)

None == "None"

Range(s) == {s[i] : i \in 1..Len(s)}

\* config['dv_profile'] when the probe found no DOVI configuration record
NoProfile == 0

\* str(config.get('dv_profile'))
ProfileStr(p) ==
    CASE p = NoProfile -> "None"
      [] p = 5 -> "5"
      [] p = 7 -> "7"
      [] p = 8 -> "8"
      [] OTHER -> "other"

\* a stream index that is always written as the first stream
IndexStr_First(i) == "0"

\* str(video_stream_config.get('index', '0'))
IndexStr(i) ==
    CASE i = 0 -> "0"
      [] i = 1 -> "1"
      [] i = 2 -> "2"
      [] OTHER -> "3"

SOURCE == "source_file"
FINAL == "final_file_path"

TEMP_VIDEO_RAW == "temp_video_raw.hevc"
TEMP_VIDEO_FINAL_DV == "temp_video_final_dv.hevc"
TEMP_RPU_ORIGINAL == "temp_RPU_original.bin"
TEMP_VIDEO_CONVERTED_HEVC == "temp_video_converted.hevc"
TEMP_EDITOR_JSON == "temp_editor.json"
TEMP_RPU_CONVERTED_P8 == "temp_RPU_P8_converted.bin"
TEMP_VIDEO_CONVERTED_MKV == "temp_video_converted.mkv"
TEMP_VIDEO_P8 == "temp_video_p8.hevc"
TEMP_VIDEO_NO_DV == "temp_video_no_dv.hevc"
TEMP_VIDEO_NO_HDR10PLUS == "temp_video_no_hdr10plus.hevc"
TEMP_HDR10PLUS_JSON == "temp_hdr10plus.json"
TEMP_VIDEO_WITH_HDR10PLUS == "temp_video_with_hdr10plus.hevc"
TEMP_RPU == "temp_RPU.bin"
TEMP_VIDEO_EXTRACTED_HDR == "temp_video_extracted_hdr.hevc"
HDR_TAGS_XML == "hdr_tags.xml"

\* the paths of config['external_audio_files'] and
\* config['external_subtitle_files'], one name per file
ExtAudio(i) ==
    CASE i = 1 -> "external_audio_1.mka"
      [] OTHER -> "external_audio_2.mka"

ExtSub(i) ==
    CASE i = 1 -> "external_sub_1.srt"
      [] OTHER -> "external_sub_2.srt"

\* f"{file_basename}_temp_audio_{lang}_{idx}.mka", one name per track
TempAudio(i) ==
    CASE i = 1 -> "temp_audio_1.mka"
      [] i = 2 -> "temp_audio_2.mka"
      [] OTHER -> "temp_audio_3.mka"

\* f"{file_basename}_temp_sub_{lang}_{idx}.{ext}", one name per track
TempSub(i) ==
    CASE i = 1 -> "temp_sub_1.sup"
      [] i = 2 -> "temp_sub_2.sup"
      [] OTHER -> "temp_sub_3.sup"

NoResult == [video_input |-> None, map_str |-> None, input_type |-> None]

\* one external command: the tool, what it does, the files it reads, the
\* file it writes, one distinguishing argument, and its exit status
Cmd(tool, kind, ins, out, arg, ok) ==
    [tool |-> tool, kind |-> kind, ins |-> ins, out |-> out, arg |-> arg,
     ok |-> ok]

----------------------------------------------------------------------------
(* Inputs *)

VideoPolicies == {"encode", "passthrough"}
DvPolicies == {"keep", "drop", "convert7_to_8"}
Hdr10PlusPolicies == {"keep", "drop"}
CleanupPolicies == {"on_success", "always", "never", "ask"}
Codecs == {"hevc", "h264"}

\* (has_dv, dv_profile) pairs the probe can return: no DV, DV without a
\* profile (detected from the stream comment only), profiles 5, 7 and 8
DvCatalogs ==
    {<<FALSE, NoProfile>>, <<TRUE, NoProfile>>, <<TRUE, 5>>, <<TRUE, 7>>,
     <<TRUE, 8>>}

NoStream == [present |-> FALSE, index |-> 0, codec_name |-> None]

\* the main video stream is the first or the second stream of the container
VideoIndexes == {0, 1}

VideoStreams ==
    [present : {TRUE}, index : VideoIndexes, codec_name : Codecs]

\* streams dict of analizuj_plik, reduced to the keys the pipeline reads;
\* analizuj_plik sets no has_hdr10plus key, so streams.get('has_hdr10plus',
\* False) is False for every file it analysed
StreamCatalogs ==
    {[has_dv |-> c[1], dv_profile |-> c[2], has_hdr10plus |-> FALSE,
      video |-> v, hdr10 |-> m, n_audio |-> a, n_subs |-> b] :
        c \in DvCatalogs, v \in VideoStreams, m \in BOOLEAN,
        a \in 0..MaxAudio, b \in 0..MaxSubs}

Profiles ==
    [video_policy : VideoPolicies,
     dv_policy : DvPolicies,
     hdr10plus_policy : Hdr10PlusPolicies,
     passthrough_convert_dv_to_p8 : {"True", "False"},
     auto_cleanup_temp_video : BOOLEAN,
     final_cleanup : CleanupPolicies]

NoProfileData ==
    [video_policy |-> None, dv_policy |-> None, hdr10plus_policy |-> None,
     passthrough_convert_dv_to_p8 |-> None,
     auto_cleanup_temp_video |-> FALSE, final_cleanup |-> None]

NoStreams ==
    [has_dv |-> FALSE, dv_profile |-> NoProfile, has_hdr10plus |-> FALSE,
     video |-> NoStream, hdr10 |-> FALSE, n_audio |-> 0, n_subs |-> 0]

NoConfig ==
    [video_policy |-> None, passthrough_convert_dv_to_p8 |-> None,
     dv_policy |-> None, hdr10plus_policy |-> None, has_dv |-> FALSE,
     has_hdr10plus |-> FALSE, dv_profile |-> NoProfile,
     video_stream |-> NoStream, n_audio |-> 0, n_subs |-> 0,
     hdr10 |-> FALSE, encoder_params |-> "empty",
     auto_cleanup_temp_video |-> FALSE, final_cleanup_policy |-> None,
     final_filename |-> <<>>, default_audio_index |-> 0,
     default_subtitle_index |-> -1, n_ext_audio |-> 0, n_ext_subs |-> 0]

----------------------------------------------------------------------------
(* configure_automated_run *)

\* a resolver that stores the requested DV policy as it is
ResolveDvPolicy_AsRequested(dv_policy_from_profile, dv_profile) ==
    dv_policy_from_profile

\* lib/config_automated.py: the DV policy stored in the config
ResolveDvPolicy(dv_policy_from_profile, dv_profile) ==
    IF dv_policy_from_profile = "convert7_to_8" /\ ProfileStr(dv_profile) = "8"
    THEN "keep"
    ELSE dv_policy_from_profile

\* config['default_audio_index'] after the audio selection: the first index
\* find_best_tracks reports as default, else 0 (the initial value, assigned
\* again when tracks were selected)
DefaultAudioIndex(default_indices) ==
    IF default_indices # <<>> THEN default_indices[1] ELSE 0

\* config['default_subtitle_index'] after the subtitle selection: the first
\* reported default, else 0 under default_mode 'first' when a track was
\* selected, else -1
DefaultSubtitleIndex(default_indices, default_mode, n_selected) ==
    IF default_indices # <<>> THEN default_indices[1]
    ELSE IF default_mode = "first" /\ n_selected > 0 THEN 0 ELSE -1

\* both generations: encoder params are loaded for encode only
EncoderParams(video_policy) ==
    IF video_policy = "encode" THEN "params" ELSE "empty"

\* lib/config_automated.py: the config dict built from streams and profile;
\* it has no passthrough_convert_dv_to_p8 and no hdr10_* key. The sources
\* drawn here have no track in a default language and the profile asks for
\* no default subtitle, so both default indexes are those of that case
LibConfig(st, pd) ==
    [video_policy |-> pd.video_policy,
     passthrough_convert_dv_to_p8 |-> None,
     dv_policy |-> ResolveDvPolicy(pd.dv_policy, st.dv_profile),
     hdr10plus_policy |-> pd.hdr10plus_policy,
     has_dv |-> st.has_dv,
     has_hdr10plus |-> st.has_hdr10plus,
     dv_profile |-> st.dv_profile,
     video_stream |-> st.video,
     n_audio |-> st.n_audio,
     n_subs |-> st.n_subs,
     hdr10 |-> FALSE,
     encoder_params |-> EncoderParams(pd.video_policy),
     auto_cleanup_temp_video |-> pd.auto_cleanup_temp_video,
     final_cleanup_policy |-> pd.final_cleanup,
     final_filename |-> <<>>,
     default_audio_index |-> DefaultAudioIndex(<<>>),
     default_subtitle_index |-> DefaultSubtitleIndex(<<>>, "none", st.n_subs),
     n_ext_audio |-> 0,
     n_ext_subs |-> 0]

\* mkv_factory.py: the config dict built from streams and profile; it has
\* no dv_policy, hdr10plus_policy or has_hdr10plus key
MkvConfig(st, pd) ==
    [video_policy |-> pd.video_policy,
     passthrough_convert_dv_to_p8 |->
         IF pd.video_policy = "passthrough"
         THEN pd.passthrough_convert_dv_to_p8 ELSE "False",
     dv_policy |-> None,
     hdr10plus_policy |-> None,
     has_dv |-> st.has_dv,
     has_hdr10plus |-> FALSE,
     dv_profile |-> st.dv_profile,
     video_stream |-> st.video,
     n_audio |-> st.n_audio,
     n_subs |-> st.n_subs,
     hdr10 |-> st.hdr10,
     encoder_params |-> EncoderParams(pd.video_policy),
     auto_cleanup_temp_video |-> pd.auto_cleanup_temp_video,
     final_cleanup_policy |-> pd.final_cleanup,
     final_filename |-> <<>>,
     default_audio_index |-> DefaultAudioIndex(<<>>),
     default_subtitle_index |-> DefaultSubtitleIndex(<<>>, "none", st.n_subs),
     n_ext_audio |-> 0,
     n_ext_subs |-> 0]

\* configs a caller may build by hand and pass to run_full_conversion or to
\* a VideoProcessor: any policy on any catalog, with or without video_stream
DirectConfigs ==
    {[video_policy |-> vp, passthrough_convert_dv_to_p8 |-> None,
      dv_policy |-> dp, hdr10plus_policy |-> hp, has_dv |-> c[1],
      has_hdr10plus |-> h, dv_profile |-> c[2], video_stream |-> v,
      n_audio |-> 0, n_subs |-> 0, hdr10 |-> FALSE,
      encoder_params |-> EncoderParams(vp),
      auto_cleanup_temp_video |-> ac, final_cleanup_policy |-> "on_success",
      final_filename |-> <<>>, default_audio_index |-> 0,
      default_subtitle_index |-> -1, n_ext_audio |-> 0, n_ext_subs |-> 0] :
        vp \in VideoPolicies, dp \in DvPolicies, hp \in Hdr10PlusPolicies,
        c \in DvCatalogs, h \in BOOLEAN, v \in VideoStreams \cup {NoStream},
        ac \in BOOLEAN}

----------------------------------------------------------------------------
(* Initial states *)

\* the P5 check, the video path and the strategy have not run yet
Fresh ==
    /\ strategy = "none"
    /\ ops = <<>>
    /\ files_to_cleanup = <<>>
    /\ temp_audio_files = <<>>
    /\ temp_subtitle_files = <<>>
    /\ hdr_tags_xml_path = None
    /\ use_hdr_tags_xml = FALSE
    /\ original_video_policy = None
    /\ original_convert_flag = None
    /\ override_needed = FALSE
    /\ video_input_for_mux = ""
    /\ map_str_for_mux = ""
    /\ rpu_to_inject = None
    /\ current_file = None
    /\ temp_files = <<>>
    /\ result = NoResult
    /\ deleted = <<>>
    /\ cleanup_arg = <<>>
    /\ delete_warnings = {}
    /\ error = "none"
    /\ outcome = "running"

\* spec 4.2: the processor class is chosen by the resolved video_mode; no
\* caller of the two classes is part of the sources
StrategyClass(cfg) ==
    IF cfg.video_policy = "passthrough" THEN "ps_start" ELSE "es_start"

\* lib/batch.py: analizuj_plik, configure_automated_run, run_full_conversion
InitBatch ==
    /\ flow = "batch"
    /\ streams \in {st \in StreamCatalogs : ~st.hdr10}
    /\ profile_data \in
           {pd \in Profiles : pd.passthrough_convert_dv_to_p8 = "False"}
    /\ config = NoConfig
    /\ pc = "configure"
    /\ fs \in {{SOURCE}, {SOURCE, FINAL}}

\* mkv_factory.py: the same three steps of the single-file script
InitMain ==
    /\ flow = "main"
    /\ streams \in StreamCatalogs
    /\ profile_data \in
           {pd \in Profiles :
               pd.dv_policy = "keep" /\ pd.hdr10plus_policy = "keep"}
    /\ config = NoConfig
    /\ pc = "configure"
    /\ fs \in {{SOURCE}, {SOURCE, FINAL}}

\* run_full_conversion called with a config that has no video_stream
InitCall ==
    /\ flow = "call"
    /\ streams = NoStreams
    /\ profile_data = NoProfileData
    /\ \E c \in DirectConfigs, cp \in CleanupPolicies :
          /\ ~c.video_stream.present
          /\ config = [c EXCEPT !.final_cleanup_policy = cp]
    /\ pc = "rfc_start"
    /\ fs \in {{SOURCE}, {SOURCE, FINAL}}

\* a VideoProcessor built on a config and asked to process()
InitStrategy ==
    /\ flow = "strategy"
    /\ streams = NoStreams
    /\ profile_data = NoProfileData
    /\ config \in DirectConfigs
    /\ pc = StrategyClass(config)
    /\ fs = {SOURCE}

\* no batch loop drives the run
NoBatchLoop ==
    /\ n_files = 0
    /\ file_index = 0
    /\ success_count = 0
    /\ fail_count = 0

Init ==
    /\ Fresh
    /\ NoBatchLoop
    /\ \/ InitBatch
       \/ InitMain
       \/ InitCall
       \/ InitStrategy

----------------------------------------------------------------------------
(* Helpers shared by the steps *)

batchV == <<n_files, file_index, success_count, fail_count>>
inputV == <<flow, streams, profile_data, batchV>>
p5V == <<original_video_policy, original_convert_flag, override_needed>>
muxV == <<video_input_for_mux, map_str_for_mux>>
tracksV == <<temp_audio_files, temp_subtitle_files>>
xmlV == <<hdr_tags_xml_path, use_hdr_tags_xml>>
procV == <<temp_files, result>>
chainV == <<rpu_to_inject, current_file>>
cleanupV == <<cleanup_arg, delete_warnings>>
endV == <<cleanupV, outcome>>

\* a run_command that returns normally whatever the exit status
Raises_Never(c) == FALSE

\* run_command: raise CalledProcessError on a non-zero exit status
Raises(c) == ~c.ok

\* the output file exists after a successful command, and may exist (partly
\* written) after a failed one
Written(c, partial) == IF c.ok \/ partial THEN {c.out} ELSE {}

\* where an exception raised in the current frame lands: the except clause
\* of run_full_conversion, or out of process() to its caller
Raise(err) ==
    /\ error' = err
    /\ IF flow = "strategy"
       THEN pc' = "done" /\ outcome' = "failed"
       ELSE pc' = "rfc_except" /\ outcome' = outcome

\* config.get('passthrough_convert_dv_to_p8') used as a condition
Truthy(flag) == flag = "True"

----------------------------------------------------------------------------
(* configure_automated_run *)

\* utils.py: the quality tags generate_plex_friendly_name puts between the
\* square brackets of the file name (title, year and resolution left out)
generate_plex_friendly_name(cfg) ==
    (IF cfg.video_policy = "passthrough"
     THEN (IF cfg.video_stream.codec_name = "hevc" THEN <<"HEVC">>
           ELSE IF cfg.video_stream.codec_name = "h264" THEN <<"H.264">>
           ELSE <<>>) \o <<"REMUX">>
     ELSE <<"HEVC">> \o
          (IF cfg.encoder_params = "params" THEN <<"CQ">> ELSE <<>>))
    \o (IF cfg.has_dv /\ cfg.dv_policy # "drop" THEN <<"DV">> ELSE <<>>)
    \o (IF cfg.has_hdr10plus /\ cfg.hdr10plus_policy # "drop"
        THEN <<"HDR10plus">> ELSE <<>>)

\* the config with its final_filename filled in from the config itself
WithFinalFilename(cfg) ==
    [cfg EXCEPT !.final_filename = generate_plex_friendly_name(cfg)]

configure_automated_run ==
    /\ pc = "configure"
    /\ flow = "batch"
    /\ config' = WithFinalFilename(LibConfig(streams, profile_data))
    /\ pc' = "rfc_start"
    /\ UNCHANGED <<inputV, strategy, ops, fs, files_to_cleanup, tracksV, xmlV,
                   p5V, muxV, chainV, procV, deleted, endV, error>>

mkv_configure_automated_run ==
    /\ pc = "configure"
    /\ flow = "main"
    /\ config' = WithFinalFilename(MkvConfig(streams, profile_data))
    /\ pc' = "rfc_start"
    /\ UNCHANGED <<inputV, strategy, ops, fs, files_to_cleanup, tracksV, xmlV,
                   p5V, muxV, chainV, procV, deleted, endV, error>>

----------------------------------------------------------------------------
(* run_full_conversion: common steps *)

AfterSubs == "rfc_hdr_tags"

AfterAudio(cfg) == IF cfg.n_subs > 0 THEN "rfc_subs" ELSE AfterSubs

AfterStart(cfg) == IF cfg.n_audio > 0 THEN "rfc_audio" ELSE AfterAudio(cfg)

\* a check that never finds the output file
OutputExists_Never(files) == FALSE

\* os.path.exists(final_file_path)
OutputExists(files) == FINAL \in files

\* the output file exists: warn and return
rfc_skip ==
    /\ pc = "rfc_start"
    /\ OutputExists(fs)
    /\ pc' = "done"
    /\ outcome' = "skipped"
    /\ UNCHANGED <<inputV, config, strategy, ops, fs, files_to_cleanup,
                   tracksV, xmlV, p5V, muxV, chainV, procV, deleted,
                   cleanupV, error>>

rfc_start ==
    /\ pc = "rfc_start"
    /\ ~OutputExists(fs)
    /\ pc' = AfterStart(config)
    /\ UNCHANGED <<inputV, config, strategy, ops, fs, files_to_cleanup,
                   tracksV, xmlV, p5V, muxV, chainV, procV, deleted, endV,
                   error>>

\* Step 1: one mkvextract per selected internal audio track
rfc_extract_audio ==
    /\ pc = "rfc_audio"
    /\ \E ok \in BOOLEAN, partial \in BOOLEAN :
        LET i == Len(temp_audio_files) + 1
            c == Cmd("mkvextract", "extract-audio", {SOURCE}, TempAudio(i),
                     "", ok)
        IN  /\ ops' = Append(ops, c)
            /\ fs' = fs \cup Written(c, partial)
            /\ IF Raises(c)
               THEN /\ Raise("CalledProcessError")
                    /\ UNCHANGED <<temp_audio_files, files_to_cleanup>>
               ELSE /\ temp_audio_files' = Append(temp_audio_files, c.out)
                    /\ files_to_cleanup' = Append(files_to_cleanup, c.out)
                    /\ pc' = IF i < config.n_audio THEN "rfc_audio"
                             ELSE AfterAudio(config)
                    /\ UNCHANGED <<error, outcome>>
    /\ UNCHANGED <<inputV, config, strategy, temp_subtitle_files, xmlV, p5V,
                   muxV, chainV, procV, deleted, cleanupV>>

\* Step 2: one mkvextract per selected internal subtitle track
rfc_extract_subs ==
    /\ pc = "rfc_subs"
    /\ \E ok \in BOOLEAN, partial \in BOOLEAN :
        LET i == Len(temp_subtitle_files) + 1
            c == Cmd("mkvextract", "extract-sub", {SOURCE}, TempSub(i),
                     "", ok)
        IN  /\ ops' = Append(ops, c)
            /\ fs' = fs \cup Written(c, partial)
            /\ IF Raises(c)
               THEN /\ Raise("CalledProcessError")
                    /\ UNCHANGED <<temp_subtitle_files, files_to_cleanup>>
               ELSE /\ temp_subtitle_files' = Append(temp_subtitle_files, c.out)
                    /\ files_to_cleanup' = Append(files_to_cleanup, c.out)
                    /\ pc' = IF i < config.n_subs THEN "rfc_subs"
                             ELSE AfterSubs
                    /\ UNCHANGED <<error, outcome>>
    /\ UNCHANGED <<inputV, config, strategy, temp_audio_files, xmlV, p5V,
                   muxV, chainV, procV, deleted, cleanupV>>

\* create_hdr_tags_xml: the path of the written file, or None when the
\* config carries no HDR10 metadata
create_hdr_tags_xml(cfg) == IF cfg.hdr10 THEN HDR_TAGS_XML ELSE None

\* Step 3: the XML tag file is generated unless the policy is passthrough
rfc_hdr_tags ==
    /\ pc = "rfc_hdr_tags"
    /\ use_hdr_tags_xml' = FALSE
    /\ IF config.video_policy # "passthrough"
       THEN /\ hdr_tags_xml_path' = create_hdr_tags_xml(config)
            /\ IF hdr_tags_xml_path' # None
               THEN /\ files_to_cleanup' =
                           Append(files_to_cleanup, hdr_tags_xml_path')
                    /\ fs' = fs \cup {hdr_tags_xml_path'}
               ELSE UNCHANGED <<files_to_cleanup, fs>>
       ELSE /\ hdr_tags_xml_path' = None
            /\ UNCHANGED <<files_to_cleanup, fs>>
    /\ pc' = "rfc_p5"
    /\ UNCHANGED <<inputV, config, strategy, ops, tracksV, p5V, muxV, chainV,
                   procV, deleted, endV, error>>

----------------------------------------------------------------------------
(* run_full_conversion: Profile 5 sanity check *)

\* a check that looks at the requested video policy only
OverrideNeeded_PolicyOnly(cfg) ==
    /\ ProfileStr(cfg.dv_profile) = "5"
    /\ cfg.video_policy = "encode"

\* override_needed after the check
OverrideNeeded(cfg) ==
    /\ ProfileStr(cfg.dv_profile) = "5"
    /\ \/ cfg.video_policy = "encode"
       \/ Truthy(cfg.passthrough_convert_dv_to_p8)

\* a check that reports the override but leaves the config as requested
ResolveProfile5_ReportOnly(cfg) == cfg

\* the config after the check
ResolveProfile5(cfg) ==
    IF OverrideNeeded(cfg)
    THEN [cfg EXCEPT !.video_policy = "passthrough",
                     !.passthrough_convert_dv_to_p8 = "False"]
    ELSE cfg

rfc_profile5_check ==
    /\ pc = "rfc_p5"
    /\ original_video_policy' = config.video_policy
    /\ original_convert_flag' = config.passthrough_convert_dv_to_p8
    /\ override_needed' = OverrideNeeded(config)
    /\ config' = ResolveProfile5(config)
    /\ use_hdr_tags_xml' = FALSE
    /\ pc' = "rfc_video"
    /\ UNCHANGED <<inputV, strategy, ops, fs, files_to_cleanup, tracksV,
                   hdr_tags_xml_path, muxV, chainV, procV, deleted, endV,
                   error>>

----------------------------------------------------------------------------
(* run_full_conversion: the video path *)

\* skasuj_plik: delete one file now
skasuj_plik(files, f) == files \ {f}

\* conversion_mode of the passthrough branch: "2" (P7 -> P8), "3" (P5 -> P8)
\* or None
ConversionMode(cfg) ==
    IF Truthy(cfg.passthrough_convert_dv_to_p8)
          /\ ProfileStr(cfg.dv_profile) = "7"
    THEN "2"
    ELSE IF Truthy(cfg.passthrough_convert_dv_to_p8)
               /\ ProfileStr(cfg.dv_profile) = "5"
         THEN "3"
         ELSE None

\* the video path run_full_conversion takes for a resolved config
VideoPath(cfg) ==
    IF cfg.video_policy = "passthrough"
    THEN IF ConversionMode(cfg) # None
         THEN "HybridPassthrough" ELSE "PurePassthrough"
    ELSE IF ProfileStr(cfg.dv_profile) \in {"7", "8"}
         THEN "UnifiedEncode" ELSE "SimpleEncode"

\* Profile 7 / Profile 8 encode is refused when the codec is not HEVC
UnifiedCodecRefused(cfg) == cfg.video_stream.codec_name # "hevc"

rfc_select_path ==
    /\ pc = "rfc_video"
    /\ LET path == VideoPath(config) IN
       IF config.video_policy = "passthrough"
       THEN /\ strategy' = path
            /\ pc' = IF path = "HybridPassthrough" THEN "hy_extract" ELSE "pure"
            /\ UNCHANGED <<use_hdr_tags_xml, error, outcome>>
       ELSE IF ~config.video_stream.present
            THEN /\ Raise("ValueError")
                 /\ UNCHANGED <<strategy, use_hdr_tags_xml>>
            ELSE /\ strategy' = path
                 /\ use_hdr_tags_xml' = TRUE
                 /\ IF path = "UnifiedEncode" /\ UnifiedCodecRefused(config)
                    THEN Raise("ValueError")
                    ELSE /\ pc' = IF path = "UnifiedEncode"
                                  THEN "un_extract" ELSE "fb_encode"
                         /\ UNCHANGED <<error, outcome>>
    /\ UNCHANGED <<inputV, config, ops, fs, files_to_cleanup, tracksV,
                   hdr_tags_xml_path, p5V, muxV, chainV, procV, deleted,
                   cleanupV>>

\* Pure passthrough: the muxer reads the video track from the source file
rfc_pure_passthrough ==
    /\ pc = "pure"
    /\ IF ~config.video_stream.present
       THEN /\ Raise("ValueError")
            /\ UNCHANGED <<muxV, use_hdr_tags_xml>>
       ELSE /\ video_input_for_mux' = SOURCE
            /\ map_str_for_mux' = IndexStr(config.video_stream.index)
            /\ use_hdr_tags_xml' = FALSE
            /\ pc' = "rfc_mux"
            /\ UNCHANGED <<error, outcome>>
    /\ UNCHANGED <<inputV, config, strategy, ops, fs, files_to_cleanup,
                   tracksV, hdr_tags_xml_path, p5V, chainV, procV, deleted,
                   cleanupV>>

\* Hybrid passthrough, step 4a: mkvextract of the raw HEVC stream
rfc_hybrid_extract_raw ==
    /\ pc = "hy_extract"
    /\ files_to_cleanup' =
           files_to_cleanup \o <<TEMP_VIDEO_RAW, TEMP_VIDEO_FINAL_DV>>
    /\ IF ~config.video_stream.present
       THEN /\ Raise("ValueError")
            /\ UNCHANGED <<ops, fs>>
       ELSE \E ok \in BOOLEAN, partial \in BOOLEAN :
            LET c == Cmd("mkvextract", "extract-raw", {SOURCE},
                         TEMP_VIDEO_RAW,
                         IndexStr(config.video_stream.index), ok)
            IN  /\ ops' = Append(ops, c)
                /\ fs' = fs \cup Written(c, partial)
                /\ IF Raises(c)
                   THEN Raise("CalledProcessError")
                   ELSE /\ pc' = "hy_convert"
                        /\ UNCHANGED <<error, outcome>>
    /\ UNCHANGED <<inputV, config, strategy, tracksV, xmlV, p5V, muxV,
                   chainV, procV, deleted, cleanupV>>

\* Hybrid passthrough, step 4b: dovi_tool convert, then the raw stream is
\* deleted when auto_cleanup_temp_video is set
rfc_hybrid_convert ==
    /\ pc = "hy_convert"
    /\ \E ok \in BOOLEAN, partial \in BOOLEAN :
        LET c == Cmd("dovi_tool", "dv-convert", {TEMP_VIDEO_RAW},
                     TEMP_VIDEO_FINAL_DV, ConversionMode(config), ok)
        IN  /\ ops' = Append(ops, c)
            /\ IF Raises(c)
               THEN /\ fs' = fs \cup Written(c, partial)
                    /\ Raise("CalledProcessError")
                    /\ UNCHANGED <<muxV, use_hdr_tags_xml, deleted>>
               ELSE /\ IF config.auto_cleanup_temp_video
                       THEN /\ fs' = skasuj_plik(fs \cup {c.out},
                                                 TEMP_VIDEO_RAW)
                            /\ deleted' = Append(deleted, TEMP_VIDEO_RAW)
                       ELSE /\ fs' = fs \cup {c.out}
                            /\ UNCHANGED deleted
                    /\ video_input_for_mux' = TEMP_VIDEO_FINAL_DV
                    /\ map_str_for_mux' = "0"
                    /\ use_hdr_tags_xml' = FALSE
                    /\ pc' = "rfc_mux"
                    /\ UNCHANGED <<error, outcome>>
    /\ UNCHANGED <<inputV, config, strategy, files_to_cleanup, tracksV,
                   hdr_tags_xml_path, p5V, chainV, procV, cleanupV>>

\* a unified workflow that registers its temp files and goes straight to
\* the RPU step, without extracting the raw stream
rfc_unified_extract_raw_Skipped ==
    /\ pc = "un_extract"
    /\ files_to_cleanup' =
           files_to_cleanup \o <<TEMP_VIDEO_RAW, TEMP_RPU_ORIGINAL,
                                 TEMP_VIDEO_CONVERTED_HEVC,
                                 TEMP_VIDEO_FINAL_DV>>
    /\ pc' = "un_rpu"
    /\ UNCHANGED <<inputV, config, strategy, ops, fs, tracksV, xmlV, p5V,
                   muxV, chainV, procV, deleted, endV, error>>

\* Unified encode, step 4a: the four temp files are registered and the raw
\* HEVC stream is extracted
rfc_unified_extract_raw ==
    /\ pc = "un_extract"
    /\ files_to_cleanup' =
           files_to_cleanup \o <<TEMP_VIDEO_RAW, TEMP_RPU_ORIGINAL,
                                 TEMP_VIDEO_CONVERTED_HEVC,
                                 TEMP_VIDEO_FINAL_DV>>
    /\ \E ok \in BOOLEAN, partial \in BOOLEAN :
        LET c == Cmd("mkvextract", "extract-raw", {SOURCE}, TEMP_VIDEO_RAW,
                     IndexStr(config.video_stream.index), ok)
        IN  /\ ops' = Append(ops, c)
            /\ fs' = fs \cup Written(c, partial)
            /\ IF Raises(c)
               THEN Raise("CalledProcessError")
               ELSE /\ pc' = "un_rpu"
                    /\ UNCHANGED <<error, outcome>>
    /\ UNCHANGED <<inputV, config, strategy, tracksV, xmlV, p5V, muxV,
                   chainV, procV, deleted, cleanupV>>

\* Unified encode, step 4b: the original RPU is extracted from the raw stream
rfc_unified_extract_rpu ==
    /\ pc = "un_rpu"
    /\ \E ok \in BOOLEAN, partial \in BOOLEAN :
        LET c == Cmd("dovi_tool", "extract-rpu", {TEMP_VIDEO_RAW},
                     TEMP_RPU_ORIGINAL, "", ok)
        IN  /\ ops' = Append(ops, c)
            /\ fs' = fs \cup Written(c, partial)
            /\ IF Raises(c)
               THEN Raise("CalledProcessError")
               ELSE /\ pc' = "un_encode"
                    /\ UNCHANGED <<error, outcome>>
    /\ UNCHANGED <<inputV, config, strategy, files_to_cleanup, tracksV, xmlV,
                   p5V, muxV, chainV, procV, deleted, cleanupV>>

\* the RPU of a Profile 7 source must be converted before it is injected
NeedsRpuConversion(cfg) == ProfileStr(cfg.dv_profile) = "7"

\* Unified encode, step 5: ffmpeg encodes the raw stream; for Profile 8 the
\* original RPU is kept and the raw stream is deleted under auto cleanup
rfc_unified_encode ==
    /\ pc = "un_encode"
    /\ \E ok \in BOOLEAN, partial \in BOOLEAN :
        LET c == Cmd("ffmpeg", "encode", {TEMP_VIDEO_RAW},
                     TEMP_VIDEO_CONVERTED_HEVC, "", ok)
        IN  /\ ops' = Append(ops, c)
            /\ IF Raises(c)
               THEN /\ fs' = fs \cup Written(c, partial)
                    /\ Raise("CalledProcessError")
                    /\ UNCHANGED <<rpu_to_inject, deleted>>
               ELSE /\ rpu_to_inject' = TEMP_RPU_ORIGINAL
                    /\ IF NeedsRpuConversion(config)
                       THEN /\ pc' = "un_convert"
                            /\ fs' = fs \cup {c.out}
                            /\ UNCHANGED deleted
                       ELSE /\ pc' = "un_inject"
                            /\ IF config.auto_cleanup_temp_video
                               THEN /\ fs' = skasuj_plik(fs \cup {c.out},
                                                         TEMP_VIDEO_RAW)
                                    /\ deleted' =
                                           Append(deleted, TEMP_VIDEO_RAW)
                               ELSE /\ fs' = fs \cup {c.out}
                                    /\ UNCHANGED deleted
                    /\ UNCHANGED <<error, outcome>>
    /\ UNCHANGED <<inputV, config, strategy, files_to_cleanup, tracksV, xmlV,
                   p5V, muxV, current_file, procV, cleanupV>>

\* Unified encode, step 6a: the editor config is written and dovi_tool
\* editor converts the P7 RPU to P8.1; under auto cleanup the raw stream,
\* the original RPU and the editor config are deleted
rfc_unified_convert_rpu ==
    /\ pc = "un_convert"
    /\ files_to_cleanup' =
           files_to_cleanup \o <<TEMP_EDITOR_JSON, TEMP_RPU_CONVERTED_P8>>
    /\ \E ok \in BOOLEAN, partial \in BOOLEAN :
        LET c == Cmd("dovi_tool", "convert-rpu",
                     {TEMP_RPU_ORIGINAL, TEMP_EDITOR_JSON},
                     TEMP_RPU_CONVERTED_P8, "2", ok)
        IN  /\ ops' = Append(ops, c)
            /\ IF Raises(c)
               THEN /\ fs' = fs \cup {TEMP_EDITOR_JSON} \cup Written(c, partial)
                    /\ Raise("CalledProcessError")
                    /\ UNCHANGED <<rpu_to_inject, deleted>>
               ELSE /\ rpu_to_inject' = TEMP_RPU_CONVERTED_P8
                    /\ IF config.auto_cleanup_temp_video
                       THEN /\ fs' = (fs \cup {c.out}) \
                                       {TEMP_VIDEO_RAW, TEMP_RPU_ORIGINAL,
                                        TEMP_EDITOR_JSON}
                            /\ deleted' = deleted \o
                                   <<TEMP_VIDEO_RAW, TEMP_RPU_ORIGINAL,
                                     TEMP_EDITOR_JSON>>
                       ELSE /\ fs' = fs \cup {TEMP_EDITOR_JSON, c.out}
                            /\ UNCHANGED deleted
                    /\ pc' = "un_inject"
                    /\ UNCHANGED <<error, outcome>>
    /\ UNCHANGED <<inputV, config, strategy, tracksV, xmlV, p5V, muxV,
                   current_file, procV, cleanupV>>

\* Unified encode, step 7: the chosen RPU is injected into the encoded HEVC
rfc_unified_inject ==
    /\ pc = "un_inject"
    /\ \E ok \in BOOLEAN, partial \in BOOLEAN :
        LET c == Cmd("dovi_tool", "inject-rpu",
                     {TEMP_VIDEO_CONVERTED_HEVC, rpu_to_inject},
                     TEMP_VIDEO_FINAL_DV, rpu_to_inject, ok)
        IN  /\ ops' = Append(ops, c)
            /\ fs' = fs \cup Written(c, partial)
            /\ IF Raises(c)
               THEN /\ Raise("CalledProcessError")
                    /\ UNCHANGED muxV
               ELSE /\ video_input_for_mux' = TEMP_VIDEO_FINAL_DV
                    /\ map_str_for_mux' = "0"
                    /\ pc' = "rfc_mux"
                    /\ UNCHANGED <<error, outcome>>
    /\ UNCHANGED <<inputV, config, strategy, files_to_cleanup, tracksV, xmlV,
                   p5V, chainV, procV, deleted, cleanupV>>

\* Fallback encode: one ffmpeg run on the source container
rfc_fallback_encode ==
    /\ pc = "fb_encode"
    /\ files_to_cleanup' = Append(files_to_cleanup, TEMP_VIDEO_CONVERTED_MKV)
    /\ \E ok \in BOOLEAN, partial \in BOOLEAN :
        LET c == Cmd("ffmpeg", "encode", {SOURCE}, TEMP_VIDEO_CONVERTED_MKV,
                     IndexStr(config.video_stream.index), ok)
        IN  /\ ops' = Append(ops, c)
            /\ fs' = fs \cup Written(c, partial)
            /\ IF Raises(c)
               THEN /\ Raise("CalledProcessError")
                    /\ UNCHANGED muxV
               ELSE /\ video_input_for_mux' = TEMP_VIDEO_CONVERTED_MKV
                    /\ map_str_for_mux' = "0:0"
                    /\ pc' = "rfc_mux"
                    /\ UNCHANGED <<error, outcome>>
    /\ UNCHANGED <<inputV, config, strategy, tracksV, xmlV, p5V, chainV,
                   procV, deleted, cleanupV>>

----------------------------------------------------------------------------
(* run_full_conversion: muxing, final cleanup, error handling *)

\* the track id mkvmerge is given for the video input: --video-tracks
\* map_str in passthrough mode, --language <id>:und in encode mode, where
\* the ffmpeg-style "0:0" stands for track 0
MuxVideoSelector(video_policy, map_str) ==
    IF video_policy = "passthrough" THEN map_str
    ELSE IF map_str = "0:0" THEN "0" ELSE map_str

\* the files the mkvmerge command line names as inputs
MuxInputs ==
    {video_input_for_mux}
        \cup (IF use_hdr_tags_xml /\ hdr_tags_xml_path # None
              THEN {hdr_tags_xml_path} ELSE {})
        \cup Range(temp_audio_files)
        \cup Range(temp_subtitle_files)
        \cup {ExtAudio(i) : i \in 1..config.n_ext_audio}
        \cup {ExtSub(i) : i \in 1..config.n_ext_subs}

\* a default flag that is always yes
DefaultFlag_Always(current_index, default_index) == "yes"

\* is_default of the track at current_index
DefaultFlag(current_index, default_index) ==
    IF current_index = default_index THEN "yes" ELSE "no"

\* the tracks of one kind as the two loops add them to cmd_mux: the
\* extracted internal tracks, then the external files, each with the
\* --default-track flag computed from the running index (which starts at 0)
MuxTracks(internal, ext_paths, default_index) ==
    [i \in 1..(Len(internal) + Len(ext_paths)) |->
        [path |-> IF i <= Len(internal) THEN internal[i]
                  ELSE ext_paths[i - Len(internal)],
         default |-> DefaultFlag(i - 1, default_index)]]

rfc_mux ==
    /\ pc = "rfc_mux"
    /\ \E ok \in BOOLEAN, partial \in BOOLEAN :
        LET c == Cmd("mkvmerge", "mux", MuxInputs, FINAL, map_str_for_mux, ok)
                 @@ [audio |->
                        MuxTracks(temp_audio_files,
                                  [i \in 1..config.n_ext_audio |-> ExtAudio(i)],
                                  config.default_audio_index),
                     subs |->
                        MuxTracks(temp_subtitle_files,
                                  [i \in 1..config.n_ext_subs |-> ExtSub(i)],
                                  config.default_subtitle_index)]
        IN  /\ ops' = Append(ops, c)
            /\ fs' = fs \cup Written(c, partial)
            /\ IF Raises(c)
               THEN Raise("CalledProcessError")
               ELSE /\ pc' = "rfc_final_cleanup"
                    /\ UNCHANGED <<error, outcome>>
    /\ UNCHANGED <<inputV, config, strategy, files_to_cleanup, tracksV, xmlV,
                   p5V, muxV, chainV, procV, deleted, cleanupV>>

\* the ways one cleanup pass can go wrong: no os.remove fails, or the
\* os.remove of one listed file that exists raises OSError
DeletionFailures(files, list) ==
    {{}} \cup {{f} : f \in Range(list) \cap files}

\* a cleanup pass whose except clause lets the OSError out
CleanupEscalates_OnFailure(failing) == failing # {}

\* sprzataj_pliki: except OSError prints a warning and the loop goes on, so
\* no deletion failure leaves the function
CleanupEscalates(failing) == FALSE

\* sprzataj_pliki: every listed file that exists is removed, but for those
\* whose os.remove failed
sprzataj_pliki(files, list, failing) == files \ (Range(list) \ failing)

\* final cleanup after a successful mux: does the policy (and, for 'ask',
\* the answer typed at the prompt) delete the temp files
CleanupOnSuccess(policy, answer) ==
    \/ policy \in {"on_success", "always"}
    \/ policy = "ask" /\ answer # "n"

\* cleanup after an error: should_cleanup
CleanupOnError(policy, answer) ==
    \/ policy = "always"
    \/ policy = "ask" /\ answer = "y"

rfc_final_cleanup ==
    /\ pc = "rfc_final_cleanup"
    /\ \E answer \in {"y", "n"},
          failing \in DeletionFailures(fs, files_to_cleanup) :
        IF CleanupOnSuccess(config.final_cleanup_policy, answer)
        THEN /\ fs' = sprzataj_pliki(fs, files_to_cleanup, failing)
             /\ cleanup_arg' = Append(cleanup_arg, files_to_cleanup)
             /\ delete_warnings' = delete_warnings \cup failing
             /\ IF CleanupEscalates(failing)
                THEN Raise("OSError")
                ELSE /\ outcome' = "success"
                     /\ pc' = "done"
                     /\ error' = error
        ELSE /\ outcome' = "success"
             /\ pc' = "done"
             /\ UNCHANGED <<fs, cleanupV, error>>
    /\ UNCHANGED <<inputV, config, strategy, ops, files_to_cleanup, tracksV,
                   xmlV, p5V, muxV, chainV, procV, deleted>>

\* a fallback list that also names the output file
FallbackCleanupList_WithFinal ==
    <<TEMP_VIDEO_RAW, TEMP_RPU, TEMP_VIDEO_CONVERTED_MKV,
      TEMP_VIDEO_EXTRACTED_HDR, TEMP_VIDEO_FINAL_DV, FINAL>>
        \o temp_audio_files \o temp_subtitle_files

\* the list used when the error came before any file was registered
FallbackCleanupList ==
    <<TEMP_VIDEO_RAW, TEMP_RPU, TEMP_VIDEO_CONVERTED_MKV,
      TEMP_VIDEO_EXTRACTED_HDR, TEMP_VIDEO_FINAL_DV,
      IF hdr_tags_xml_path # None THEN hdr_tags_xml_path ELSE "">>
        \o temp_audio_files \o temp_subtitle_files

\* an except clause that ends without the raise: the call returns normally
AfterExcept_Returns == "success"

\* the bare raise that ends the except clause: the call fails
AfterExcept == "failed"

\* except Exception: policy-driven cleanup, then the exception is re-raised
rfc_except ==
    /\ pc = "rfc_except"
    /\ \E answer \in {"y", "n"} :
        IF CleanupOnError(config.final_cleanup_policy, answer)
        THEN LET list == IF files_to_cleanup = <<>> THEN FallbackCleanupList
                         ELSE files_to_cleanup
             IN  \E failing \in DeletionFailures(fs, list) :
                    /\ files_to_cleanup' = list
                    /\ fs' = sprzataj_pliki(fs, list, failing)
                    /\ cleanup_arg' = Append(cleanup_arg, list)
                    /\ delete_warnings' = delete_warnings \cup failing
                    /\ error' = IF CleanupEscalates(failing) THEN "OSError"
                                ELSE error
        ELSE UNCHANGED <<fs, files_to_cleanup, cleanupV, error>>
    /\ outcome' = AfterExcept
    /\ pc' = "done"
    /\ UNCHANGED <<inputV, config, strategy, ops, tracksV, xmlV, p5V, muxV,
                   chainV, procV, deleted>>

----------------------------------------------------------------------------
(* PassthroughStrategy.process *)

\* dv_op_needed
DvOpNeeded(cfg) ==
    \/ cfg.dv_policy = "convert7_to_8" /\ ProfileStr(cfg.dv_profile) = "7"
    \/ cfg.dv_policy = "drop" /\ cfg.has_dv

\* hdr10plus_op_needed
Hdr10PlusOpNeeded(cfg) ==
    cfg.hdr10plus_policy = "drop" /\ cfg.has_hdr10plus

\* a hybrid chain without its DV operation
DvChainStep_Never(cfg) == "none"

\* Chain Step 2a: the one DV operation of the hybrid chain
DvChainStep(cfg) ==
    IF cfg.dv_policy = "convert7_to_8" /\ ProfileStr(cfg.dv_profile) = "7"
    THEN "dv-convert"
    ELSE IF cfg.dv_policy = "drop" /\ cfg.has_dv
         THEN "dv-remove"
         ELSE "none"

\* the decision between Case 1 (pure) and Case 2 (hybrid)
PassthroughCase(cfg) ==
    IF ~DvOpNeeded(cfg) /\ ~Hdr10PlusOpNeeded(cfg)
    THEN "PurePassthrough" ELSE "HybridPassthrough"

ps_start ==
    /\ pc = "ps_start"
    /\ IF ~config.video_stream.present
       THEN /\ Raise("ValueError")
            /\ UNCHANGED <<strategy, result>>
       ELSE /\ strategy' = PassthroughCase(config)
            /\ error' = error
            /\ IF strategy' = "PurePassthrough"
               THEN /\ result' =
                          [video_input |-> SOURCE,
                           map_str |-> IndexStr(config.video_stream.index),
                           input_type |-> "mkv_container"]
                    /\ pc' = "done"
                    /\ outcome' = "success"
               ELSE /\ pc' = "ps_extract"
                    /\ UNCHANGED <<result, outcome>>
    /\ UNCHANGED <<inputV, config, ops, fs, files_to_cleanup, tracksV, xmlV,
                   p5V, muxV, chainV, temp_files, deleted, cleanupV>>

\* an end of the hybrid chain that deletes the file it is about to return
ps_return_DeletesResult(cur, files) ==
    /\ fs' = skasuj_plik(files, cur)
    /\ deleted' = Append(deleted, cur)
    /\ result' = [video_input |-> cur, map_str |-> "0",
                  input_type |-> "raw_hevc"]
    /\ pc' = "done"
    /\ outcome' = "success"

\* the end of the hybrid chain: the raw stream is deleted under auto cleanup
\* when the chain moved past it, and the last file of the chain is returned
ps_return(cur, files) ==
    /\ IF config.auto_cleanup_temp_video /\ cur # TEMP_VIDEO_RAW
       THEN /\ fs' = skasuj_plik(files, TEMP_VIDEO_RAW)
            /\ deleted' = Append(deleted, TEMP_VIDEO_RAW)
       ELSE /\ fs' = files
            /\ UNCHANGED deleted
    /\ result' = [video_input |-> cur, map_str |-> "0",
                  input_type |-> "raw_hevc"]
    /\ pc' = "done"
    /\ outcome' = "success"

ps_extract_raw ==
    /\ pc = "ps_extract"
    /\ temp_files' = Append(temp_files, TEMP_VIDEO_RAW)
    /\ \E ok \in BOOLEAN, partial \in BOOLEAN :
        LET c == Cmd("mkvextract", "extract-raw", {SOURCE}, TEMP_VIDEO_RAW,
                     IndexStr(config.video_stream.index), ok)
        IN  /\ ops' = Append(ops, c)
            /\ fs' = fs \cup Written(c, partial)
            /\ IF Raises(c)
               THEN /\ Raise("CalledProcessError")
                    /\ UNCHANGED current_file
               ELSE /\ current_file' = TEMP_VIDEO_RAW
                    /\ pc' = IF DvChainStep(config) # "none"
                             THEN "ps_dv" ELSE "ps_hdr"
                    /\ UNCHANGED <<error, outcome>>
    /\ UNCHANGED <<inputV, config, strategy, files_to_cleanup, tracksV, xmlV,
                   p5V, muxV, rpu_to_inject, result, deleted, cleanupV>>

\* Chain Step 2a: dovi_tool convert (P7 -> P8) or dovi_tool remove
ps_dv_step ==
    /\ pc = "ps_dv"
    /\ LET kind == DvChainStep(config)
           out == IF kind = "dv-convert" THEN TEMP_VIDEO_P8
                  ELSE TEMP_VIDEO_NO_DV
       IN
       /\ temp_files' = Append(temp_files, out)
       /\ \E ok \in BOOLEAN, partial \in BOOLEAN :
           LET c == Cmd("dovi_tool", kind, {current_file}, out,
                        IF kind = "dv-convert" THEN "2" ELSE "", ok)
           IN  /\ ops' = Append(ops, c)
               /\ IF Raises(c)
                  THEN /\ fs' = fs \cup Written(c, partial)
                       /\ Raise("CalledProcessError")
                       /\ UNCHANGED <<current_file, result, deleted>>
                  ELSE /\ current_file' = out
                       /\ error' = error
                       /\ IF Hdr10PlusOpNeeded(config)
                          THEN /\ pc' = "ps_hdr"
                               /\ fs' = fs \cup {out}
                               /\ UNCHANGED <<result, deleted, outcome>>
                          ELSE ps_return(out, fs \cup {out})
    /\ UNCHANGED <<inputV, config, strategy, files_to_cleanup, tracksV, xmlV,
                   p5V, muxV, rpu_to_inject, cleanupV>>

\* Chain Step 2b: hdr10plus_tool remove, the last step of the chain
ps_hdr10plus_step ==
    /\ pc = "ps_hdr"
    /\ temp_files' = Append(temp_files, TEMP_VIDEO_NO_HDR10PLUS)
    /\ \E ok \in BOOLEAN, partial \in BOOLEAN :
        LET c == Cmd("hdr10plus_tool", "hdr10plus-remove", {current_file},
                     TEMP_VIDEO_NO_HDR10PLUS, "", ok)
        IN  /\ ops' = Append(ops, c)
            /\ IF Raises(c)
               THEN /\ fs' = fs \cup Written(c, partial)
                    /\ Raise("CalledProcessError")
                    /\ UNCHANGED <<current_file, result, deleted>>
               ELSE /\ current_file' = c.out
                    /\ error' = error
                    /\ ps_return(c.out, fs \cup {c.out})
    /\ UNCHANGED <<inputV, config, strategy, files_to_cleanup, tracksV, xmlV,
                   p5V, muxV, rpu_to_inject, cleanupV>>

----------------------------------------------------------------------------
(* EncodeStrategy.process *)

\* is_hevc
IsHevc(codec_name) == codec_name \in {"hevc", "h265"}

\* needs_injection_path: an HEVC source with DV or HDR10+
NeedsInjectionPath(cfg) ==
    IsHevc(cfg.video_stream.codec_name) /\ (cfg.has_dv \/ cfg.has_hdr10plus)

\* Step 3a: the RPU is extracted and re-injected
ReinjectsRpu(cfg) ==
    /\ cfg.has_dv
    /\ cfg.dv_policy # "drop"
    /\ ProfileStr(cfg.dv_profile) \in {"7", "8"}

\* Step 3a without the conversion
ConvertsRpu_Never(cfg) == FALSE

\* Step 3a: the extracted RPU is converted to P8.1 first
ConvertsRpu(cfg) == ProfileStr(cfg.dv_profile) = "7"

\* Step 3b skipped whatever the policy
ReinjectsHdr10Plus_Never(cfg) == FALSE

\* Step 3b: the HDR10+ metadata is extracted and re-injected
ReinjectsHdr10Plus(cfg) ==
    cfg.has_hdr10plus /\ cfg.hdr10plus_policy = "keep"

es_start ==
    /\ pc = "es_start"
    /\ IF ~config.video_stream.present
       THEN /\ Raise("ValueError")
            /\ UNCHANGED strategy
       ELSE /\ strategy' = IF NeedsInjectionPath(config)
                           THEN "UnifiedEncode" ELSE "SimpleEncode"
            /\ pc' = IF NeedsInjectionPath(config)
                     THEN "es_extract" ELSE "es_simple"
            /\ UNCHANGED <<error, outcome>>
    /\ UNCHANGED <<inputV, config, ops, fs, files_to_cleanup, tracksV, xmlV,
                   p5V, muxV, chainV, procV, deleted, cleanupV>>

\* the step after the DV stage: the HDR10+ stage, or the end of process()
es_after_dv(cfg) ==
    IF ReinjectsHdr10Plus(cfg) THEN "es_hdr_extract" ELSE "return"

\* move on to the next step; at the end of process() the raw stream is
\* deleted under auto cleanup and the last file of the chain is returned.
\* dels: the files skasuj_plik removed earlier in the same step
es_continue(next, cur, files, dels) ==
    IF next = "return"
    THEN /\ IF config.auto_cleanup_temp_video
            THEN /\ fs' = skasuj_plik(files, TEMP_VIDEO_RAW)
                 /\ deleted' = deleted \o dels \o <<TEMP_VIDEO_RAW>>
            ELSE /\ fs' = files
                 /\ deleted' = deleted \o dels
         /\ result' = [video_input |-> cur, map_str |-> "0",
                       input_type |-> "raw_hevc"]
         /\ pc' = "done"
         /\ outcome' = "success"
    ELSE /\ fs' = files
         /\ deleted' = deleted \o dels
         /\ pc' = next
         /\ UNCHANGED <<result, outcome>>

\* Step 1: raw and encoded file are registered, the raw HEVC is extracted
es_extract_raw ==
    /\ pc = "es_extract"
    /\ temp_files' =
           temp_files \o <<TEMP_VIDEO_RAW, TEMP_VIDEO_CONVERTED_HEVC>>
    /\ \E ok \in BOOLEAN, partial \in BOOLEAN :
        LET c == Cmd("mkvextract", "extract-raw", {SOURCE}, TEMP_VIDEO_RAW,
                     IndexStr(config.video_stream.index), ok)
        IN  /\ ops' = Append(ops, c)
            /\ fs' = fs \cup Written(c, partial)
            /\ IF Raises(c)
               THEN Raise("CalledProcessError")
               ELSE /\ pc' = "es_encode"
                    /\ UNCHANGED <<error, outcome>>
    /\ UNCHANGED <<inputV, config, strategy, files_to_cleanup, tracksV, xmlV,
                   p5V, muxV, chainV, result, deleted, cleanupV>>

\* Step 2: ffmpeg encodes the raw stream
es_encode ==
    /\ pc = "es_encode"
    /\ \E ok \in BOOLEAN, partial \in BOOLEAN :
        LET c == Cmd("ffmpeg", "encode", {TEMP_VIDEO_RAW},
                     TEMP_VIDEO_CONVERTED_HEVC, "", ok)
        IN  /\ ops' = Append(ops, c)
            /\ IF Raises(c)
               THEN /\ fs' = fs \cup Written(c, partial)
                    /\ Raise("CalledProcessError")
                    /\ UNCHANGED <<current_file, result, deleted>>
               ELSE /\ current_file' = c.out
                    /\ error' = error
                    /\ es_continue(IF ReinjectsRpu(config)
                                   THEN "es_rpu_extract"
                                   ELSE es_after_dv(config),
                                   c.out, fs \cup {c.out}, <<>>)
    /\ UNCHANGED <<inputV, config, strategy, files_to_cleanup, tracksV, xmlV,
                   p5V, muxV, rpu_to_inject, temp_files, cleanupV>>

\* Step 6: the original RPU is extracted from the raw stream
es_extract_rpu ==
    /\ pc = "es_rpu_extract"
    /\ temp_files' = temp_files \o <<TEMP_RPU_ORIGINAL, TEMP_VIDEO_FINAL_DV>>
    /\ rpu_to_inject' = TEMP_RPU_ORIGINAL
    /\ \E ok \in BOOLEAN, partial \in BOOLEAN :
        LET c == Cmd("dovi_tool", "extract-rpu", {TEMP_VIDEO_RAW},
                     TEMP_RPU_ORIGINAL, "", ok)
        IN  /\ ops' = Append(ops, c)
            /\ fs' = fs \cup Written(c, partial)
            /\ IF Raises(c)
               THEN Raise("CalledProcessError")
               ELSE /\ pc' = IF ConvertsRpu(config)
                             THEN "es_rpu_convert" ELSE "es_inject"
                    /\ UNCHANGED <<error, outcome>>
    /\ UNCHANGED <<inputV, config, strategy, files_to_cleanup, tracksV, xmlV,
                   p5V, muxV, current_file, result, deleted, cleanupV>>

\* Step 6a: the editor config is written and dovi_tool editor converts the
\* P7 RPU; under auto cleanup the original RPU and the config are deleted
es_convert_rpu ==
    /\ pc = "es_rpu_convert"
    /\ temp_files' = temp_files \o <<TEMP_EDITOR_JSON, TEMP_RPU_CONVERTED_P8>>
    /\ \E ok \in BOOLEAN, partial \in BOOLEAN :
        LET c == Cmd("dovi_tool", "convert-rpu",
                     {TEMP_RPU_ORIGINAL, TEMP_EDITOR_JSON},
                     TEMP_RPU_CONVERTED_P8, "2", ok)
        IN  /\ ops' = Append(ops, c)
            /\ IF Raises(c)
               THEN /\ fs' = fs \cup {TEMP_EDITOR_JSON} \cup Written(c, partial)
                    /\ Raise("CalledProcessError")
                    /\ UNCHANGED <<rpu_to_inject, deleted>>
               ELSE /\ rpu_to_inject' = TEMP_RPU_CONVERTED_P8
                    /\ IF config.auto_cleanup_temp_video
                       THEN /\ fs' = (fs \cup {c.out}) \
                                       {TEMP_RPU_ORIGINAL, TEMP_EDITOR_JSON}
                            /\ deleted' = deleted \o
                                   <<TEMP_RPU_ORIGINAL, TEMP_EDITOR_JSON>>
                       ELSE /\ fs' = fs \cup {TEMP_EDITOR_JSON, c.out}
                            /\ UNCHANGED deleted
                    /\ pc' = "es_inject"
                    /\ UNCHANGED <<error, outcome>>
    /\ UNCHANGED <<inputV, config, strategy, files_to_cleanup, tracksV, xmlV,
                   p5V, muxV, current_file, result, cleanupV>>

\* Step 7: the chosen RPU is injected into the current file of the chain
es_inject_rpu ==
    /\ pc = "es_inject"
    /\ \E ok \in BOOLEAN, partial \in BOOLEAN :
        LET c == Cmd("dovi_tool", "inject-rpu", {current_file, rpu_to_inject},
                     TEMP_VIDEO_FINAL_DV, rpu_to_inject, ok)
        IN  /\ ops' = Append(ops, c)
            /\ IF Raises(c)
               THEN /\ fs' = fs \cup Written(c, partial)
                    /\ Raise("CalledProcessError")
                    /\ UNCHANGED <<current_file, result, deleted>>
               ELSE /\ current_file' = c.out
                    /\ error' = error
                    /\ es_continue(es_after_dv(config), c.out,
                                   fs \cup {c.out}, <<>>)
    /\ UNCHANGED <<inputV, config, strategy, files_to_cleanup, tracksV, xmlV,
                   p5V, muxV, rpu_to_inject, temp_files, cleanupV>>

\* Step 7b (1): the HDR10+ metadata is extracted from the original raw file
es_extract_hdr10plus ==
    /\ pc = "es_hdr_extract"
    /\ temp_files' =
           temp_files \o <<TEMP_HDR10PLUS_JSON, TEMP_VIDEO_WITH_HDR10PLUS>>
    /\ \E ok \in BOOLEAN, partial \in BOOLEAN :
        LET c == Cmd("hdr10plus_tool", "hdr10plus-extract", {TEMP_VIDEO_RAW},
                     TEMP_HDR10PLUS_JSON, "", ok)
        IN  /\ ops' = Append(ops, c)
            /\ fs' = fs \cup Written(c, partial)
            /\ IF Raises(c)
               THEN Raise("CalledProcessError")
               ELSE /\ pc' = "es_hdr_inject"
                    /\ UNCHANGED <<error, outcome>>
    /\ UNCHANGED <<inputV, config, strategy, files_to_cleanup, tracksV, xmlV,
                   p5V, muxV, chainV, result, deleted, cleanupV>>

\* Step 7b (2): the metadata is injected into the current file of the chain;
\* under auto cleanup the JSON is deleted; process() ends here
es_inject_hdr10plus ==
    /\ pc = "es_hdr_inject"
    /\ \E ok \in BOOLEAN, partial \in BOOLEAN :
        LET c == Cmd("hdr10plus_tool", "hdr10plus-inject",
                     {current_file, TEMP_HDR10PLUS_JSON},
                     TEMP_VIDEO_WITH_HDR10PLUS, "", ok)
        IN  /\ ops' = Append(ops, c)
            /\ IF Raises(c)
               THEN /\ fs' = fs \cup Written(c, partial)
                    /\ Raise("CalledProcessError")
                    /\ UNCHANGED <<current_file, result, deleted>>
               ELSE /\ current_file' = c.out
                    /\ error' = error
                    /\ IF config.auto_cleanup_temp_video
                       THEN es_continue("return", c.out,
                                skasuj_plik(fs \cup {c.out},
                                            TEMP_HDR10PLUS_JSON),
                                <<TEMP_HDR10PLUS_JSON>>)
                       ELSE es_continue("return", c.out, fs \cup {c.out},
                                        <<>>)
    /\ UNCHANGED <<inputV, config, strategy, files_to_cleanup, tracksV, xmlV,
                   p5V, muxV, rpu_to_inject, temp_files, cleanupV>>

\* Path B: one ffmpeg run on the source container
es_simple_encode ==
    /\ pc = "es_simple"
    /\ temp_files' = Append(temp_files, TEMP_VIDEO_CONVERTED_HEVC)
    /\ \E ok \in BOOLEAN, partial \in BOOLEAN :
        LET c == Cmd("ffmpeg", "encode", {SOURCE}, TEMP_VIDEO_CONVERTED_HEVC,
                     IndexStr(config.video_stream.index), ok)
        IN  /\ ops' = Append(ops, c)
            /\ fs' = fs \cup Written(c, partial)
            /\ IF Raises(c)
               THEN /\ Raise("CalledProcessError")
                    /\ UNCHANGED result
               ELSE /\ result' = [video_input |-> c.out, map_str |-> "0",
                                  input_type |-> "raw_hevc"]
                    /\ pc' = "done"
                    /\ outcome' = "success"
                    /\ error' = error
    /\ UNCHANGED <<inputV, config, strategy, files_to_cleanup, tracksV, xmlV,
                   p5V, muxV, chainV, deleted, cleanupV>>

----------------------------------------------------------------------------
(* The specification *)

Next ==
    \/ configure_automated_run
    \/ mkv_configure_automated_run
    \/ rfc_skip
    \/ rfc_start
    \/ rfc_extract_audio
    \/ rfc_extract_subs
    \/ rfc_hdr_tags
    \/ rfc_profile5_check
    \/ rfc_select_path
    \/ rfc_pure_passthrough
    \/ rfc_hybrid_extract_raw
    \/ rfc_hybrid_convert
    \/ rfc_unified_extract_raw
    \/ rfc_unified_extract_rpu
    \/ rfc_unified_encode
    \/ rfc_unified_convert_rpu
    \/ rfc_unified_inject
    \/ rfc_fallback_encode
    \/ rfc_mux
    \/ rfc_final_cleanup
    \/ rfc_except
    \/ ps_start
    \/ ps_extract_raw
    \/ ps_dv_step
    \/ ps_hdr10plus_step
    \/ es_start
    \/ es_extract_raw
    \/ es_encode
    \/ es_extract_rpu
    \/ es_convert_rpu
    \/ es_inject_rpu
    \/ es_extract_hdr10plus
    \/ es_inject_hdr10plus
    \/ es_simple_encode

Spec == Init /\ [][Next]_vars

\* the same program when every external command and every prompt returns:
\* a step that can be taken is eventually taken
SpecLive == Init /\ [][Next]_vars /\ WF_vars(Next)

----------------------------------------------------------------------------
(* run_batch_processing: the loop over the video files of a directory *)

\* the loop starts on its first file with both counters at zero
InitBatchLoop ==
    /\ Fresh
    /\ flow = "batch"
    /\ streams = NoStreams
    /\ profile_data \in
           {pd \in Profiles : pd.passthrough_convert_dv_to_p8 = "False"}
    /\ config = NoConfig
    /\ pc = "batch_probe"
    /\ fs = {SOURCE}
    /\ n_files = MaxFiles
    /\ file_index = 0
    /\ success_count = 0
    /\ fail_count = 0

\* the loop moves to the next file, or ends after the last one; the locals
\* of the iteration are gone and the next file has temp names of its own
NextFile ==
    /\ file_index' = file_index + 1
    /\ pc' = IF file_index + 1 < n_files THEN "batch_probe" ELSE "batch_done"
    /\ streams' = NoStreams
    /\ config' = NoConfig
    /\ fs' = {SOURCE}
    /\ strategy' = "none"
    /\ ops' = <<>>
    /\ files_to_cleanup' = <<>>
    /\ temp_audio_files' = <<>>
    /\ temp_subtitle_files' = <<>>
    /\ hdr_tags_xml_path' = None
    /\ use_hdr_tags_xml' = FALSE
    /\ original_video_policy' = None
    /\ original_convert_flag' = None
    /\ override_needed' = FALSE
    /\ video_input_for_mux' = ""
    /\ map_str_for_mux' = ""
    /\ rpu_to_inject' = None
    /\ current_file' = None
    /\ deleted' = <<>>
    /\ cleanup_arg' = <<>>
    /\ delete_warnings' = {}
    /\ error' = "none"
    /\ outcome' = "running"
    /\ UNCHANGED <<flow, profile_data, n_files, procV>>

\* analizuj_plik returns the streams of the file (the output name it will be
\* given may exist by the time the conversion starts), or raises
batch_analizuj_plik ==
    /\ pc = "batch_probe"
    /\ \/ /\ streams' \in {st \in StreamCatalogs : ~st.hdr10}
          /\ fs' \in {{SOURCE}, {SOURCE, FINAL}}
          /\ pc' = "configure"
          /\ UNCHANGED error
       \/ /\ error' = "CalledProcessError"
          /\ pc' = "batch_except"
          /\ UNCHANGED <<streams, fs>>
    /\ UNCHANGED <<flow, profile_data, batchV, config, strategy, ops,
                   files_to_cleanup, tracksV, xmlV, p5V, muxV, chainV, procV,
                   deleted, endV>>

\* a skip of a file without video that counts it nowhere
batch_no_video_Uncounted ==
    /\ pc = "batch_probe"
    /\ fail_count' = fail_count
    /\ success_count' = success_count
    /\ NextFile

\* analizuj_plik found no video stream: the file is counted as failed and
\* the loop continues
batch_no_video ==
    /\ pc = "batch_probe"
    /\ fail_count' = fail_count + 1
    /\ success_count' = success_count
    /\ NextFile

\* configure_automated_run raises (a profile that was not validated for the
\* encoder has no encoder_params to read)
batch_configure_raises ==
    /\ pc = "configure"
    /\ error' = "KeyError"
    /\ pc' = "batch_except"
    /\ UNCHANGED <<inputV, config, strategy, ops, fs, files_to_cleanup,
                   tracksV, xmlV, p5V, muxV, chainV, procV, deleted, endV>>

\* run_full_conversion returned (converted, or skipped): success_count += 1
batch_file_returned ==
    /\ pc = "done"
    /\ outcome \in {"success", "skipped"}
    /\ success_count' = success_count + 1
    /\ fail_count' = fail_count
    /\ NextFile

\* a loop without the try block: the exception leaves run_batch_processing
batch_except_Aborts ==
    /\ \/ pc = "batch_except"
       \/ pc = "done" /\ outcome = "failed"
    /\ pc' = "batch_done"
    /\ UNCHANGED <<inputV, config, strategy, ops, fs, files_to_cleanup,
                   tracksV, xmlV, p5V, muxV, chainV, procV, deleted, endV,
                   error>>

\* except Exception: the failure is reported, fail_count += 1, next file
batch_except ==
    /\ \/ pc = "batch_except"
       \/ pc = "done" /\ outcome = "failed"
    /\ fail_count' = fail_count + 1
    /\ success_count' = success_count
    /\ NextFile

NextBatchLoop ==
    \/ batch_analizuj_plik
    \/ batch_no_video
    \/ configure_automated_run
    \/ batch_configure_raises
    \/ rfc_skip
    \/ rfc_start
    \/ rfc_extract_audio
    \/ rfc_extract_subs
    \/ rfc_hdr_tags
    \/ rfc_profile5_check
    \/ rfc_select_path
    \/ rfc_pure_passthrough
    \/ rfc_unified_extract_raw
    \/ rfc_unified_extract_rpu
    \/ rfc_unified_encode
    \/ rfc_unified_convert_rpu
    \/ rfc_unified_inject
    \/ rfc_fallback_encode
    \/ rfc_mux
    \/ rfc_final_cleanup
    \/ rfc_except
    \/ batch_file_returned
    \/ batch_except

SpecBatch == InitBatchLoop /\ [][NextBatchLoop]_vars

----------------------------------------------------------------------------
(* run_full_conversion on hand-built configs with several tracks *)

\* configs of a pure passthrough run with up to MaxTracks selected internal
\* tracks and MaxExternal external files of each kind, and any default index
MuxConfigs ==
    {[c EXCEPT !.n_audio = na, !.n_subs = ns, !.n_ext_audio = ea,
               !.n_ext_subs = es, !.default_audio_index = da,
               !.default_subtitle_index = ds] :
        c \in {d \in DirectConfigs :
                 /\ d.video_stream.present
                 /\ d.video_stream.index = 0
                 /\ d.video_stream.codec_name = "hevc"
                 /\ d.video_policy = "passthrough"
                 /\ ~d.has_dv /\ ~d.has_hdr10plus
                 /\ d.dv_policy = "keep" /\ d.hdr10plus_policy = "keep"
                 /\ ~d.auto_cleanup_temp_video},
        na \in 0..MaxTracks, ns \in 0..MaxTracks,
        ea \in 0..MaxExternal, es \in 0..MaxExternal,
        da \in -1..(MaxTracks + MaxExternal),
        ds \in -1..(MaxTracks + MaxExternal)}

\* the external files are on disk next to the source
InitMux ==
    /\ Fresh
    /\ NoBatchLoop
    /\ flow = "call"
    /\ streams = NoStreams
    /\ profile_data = NoProfileData
    /\ config \in MuxConfigs
    /\ pc = "rfc_start"
    /\ fs = {SOURCE} \cup {ExtAudio(i) : i \in 1..config.n_ext_audio}
                     \cup {ExtSub(i) : i \in 1..config.n_ext_subs}

NextMux ==
    \/ rfc_start
    \/ rfc_extract_audio
    \/ rfc_extract_subs
    \/ rfc_hdr_tags
    \/ rfc_profile5_check
    \/ rfc_select_path
    \/ rfc_pure_passthrough
    \/ rfc_mux
    \/ rfc_final_cleanup
    \/ rfc_except

SpecMux == InitMux /\ [][NextMux]_vars

----------------------------------------------------------------------------

(* Properties: vocabulary *)

\* the run is one of run_full_conversion (not a bare strategy object)
InRunFullConversion == flow \in {"batch", "main", "call"}

\* the Profile 5 check of run_full_conversion has run
Resolved == InRunFullConversion /\ original_video_policy # None

\* the DV policy run_full_conversion acts on after the check: it converts
\* when the convert flag is set and keeps the DV layer untouched otherwise
EffectiveDvPolicy == 
    IF Truthy(config.passthrough_convert_dv_to_p8) THEN "convert7_to_8"
    ELSE "keep"

\* the DV policy the caller asked for, through either config key
RequestedDvPolicy ==
    IF Truthy(original_convert_flag) THEN "convert7_to_8"
    ELSE IF config.dv_policy = None THEN "keep"
    ELSE config.dv_policy

IsProfile5 == ProfileStr(config.dv_profile) = "5"

OpIndexes == 1..Len(ops)

----------------------------------------------------------------------------
(* Properties *)

\* C1: for a source of DV profile 5, once the Profile 5 check of
\* run_full_conversion has run, the policy in force is passthrough with the
\* DV layer kept: video_policy is passthrough, no DV conversion is armed, and
\* no DV conversion or removal command is ever issued, whatever was requested.
C1_Profile5ResolvesToPassthroughKeep ==
    (Resolved /\ IsProfile5) =>
        /\ config.video_policy = "passthrough"
        /\ EffectiveDvPolicy = "keep"
        /\ \A i \in OpIndexes :
              ops[i].kind \notin {"dv-convert", "dv-remove", "convert-rpu"}

\* C1 witness: a profile 5 file requested as passthrough with DV conversion
\* has been muxed successfully
C1_Witness ==
    /\ Resolved /\ IsProfile5
    /\ original_video_policy = "passthrough"
    /\ original_convert_flag = "True"
    /\ outcome = "success"

\* C2: the override flag is true exactly when the source is profile 5 and the
\* request was not already passthrough with the DV layer kept (it asked for
\* encode, or for DV conversion or removal); it is false for every other
\* profile.
C2_OverrideFlagExact ==
    Resolved =>
        (override_needed <=>
            (IsProfile5 /\ ~(original_video_policy = "passthrough"
                              /\ RequestedDvPolicy = "keep")))

C4_Profile8ConvertNormalised ==
    (flow = "batch" /\ config # NoConfig) =>
        IF streams.dv_profile = 8 /\ profile_data.dv_policy = "convert7_to_8"
        THEN config.dv_policy = "keep"
        ELSE streams.dv_profile # 5 =>
                 config.dv_policy = profile_data.dv_policy

\* C4 witness: a profile 8 source requested as convert7_to_8 was configured
\* and processed to the end
C4_Witness ==
    /\ flow = "batch" /\ config # NoConfig
    /\ streams.dv_profile = 8
    /\ profile_data.dv_policy = "convert7_to_8"
    /\ config.dv_policy = "keep"
    /\ outcome = "success"

Strategies ==
    {"PurePassthrough", "HybridPassthrough", "UnifiedEncode", "SimpleEncode"}

\* C5: strategy selection is total: for every requested video mode, DV
\* profile, HDR10+ presence and codec of a source that has a video stream,
\* one of the four strategies is selected and the selection raises no error.
C5_SelectionTotalNeverRaises ==
    config.video_stream.present =>
        /\ strategy \in Strategies \cup {"none"}
        /\ error # "ValueError"
        /\ outcome = "success" => strategy \in Strategies

\* a DV change is needed: convert7_to_8 requested (through either config key)
\* on a profile 7 source, or drop requested on a source with DV; a profile 5
\* source in run_full_conversion is resolved to keep
C6_DvChangeNeeded ==
    /\ ~(InRunFullConversion /\ IsProfile5)
    /\ \/ /\ ProfileStr(config.dv_profile) = "7"
          /\ \/ config.dv_policy = "convert7_to_8"
             \/ Truthy(config.passthrough_convert_dv_to_p8)
       \/ config.dv_policy = "drop" /\ config.has_dv

\* an HDR10+ change is needed: drop requested on a source with HDR10+
C6_Hdr10PlusChangeNeeded ==
    config.hdr10plus_policy = "drop" /\ config.has_hdr10plus

\* C6: in passthrough mode PurePassthrough is selected exactly when neither
\* a DV change nor an HDR10+ change is needed; every other passthrough
\* request goes to HybridPassthrough.
C6_PureIffNoChangeNeeded ==
    strategy \in {"PurePassthrough", "HybridPassthrough"} =>
        (strategy = "PurePassthrough" <=>
            (~C6_DvChangeNeeded /\ ~C6_Hdr10PlusChangeNeeded))

\* C7: in UnifiedEncode an RPU conversion to profile 8 is issued only for a
\* profile 7 source; every inject-rpu of a profile 7 source injects the RPU
\* written by an earlier, successful conversion, and every inject-rpu of a
\* profile 8 source injects the extracted RPU with no conversion in the run.
\* An unconverted profile 7 RPU is never injected.
C7_RpuConvertedIffProfile7 ==
    strategy = "UnifiedEncode" =>
        \A i \in OpIndexes :
           /\ ops[i].kind = "convert-rpu" =>
                 /\ ProfileStr(config.dv_profile) = "7"
                 /\ TEMP_RPU_ORIGINAL \in ops[i].ins
                 /\ ops[i].out = TEMP_RPU_CONVERTED_P8
           /\ ops[i].kind = "inject-rpu" =>
                 IF ProfileStr(config.dv_profile) = "7"
                 THEN /\ ops[i].arg = TEMP_RPU_CONVERTED_P8
                      /\ \E j \in 1..(i - 1) :
                            /\ ops[j].kind = "convert-rpu"
                            /\ ops[j].ok
                            /\ ops[j].out = ops[i].arg
                 ELSE /\ ProfileStr(config.dv_profile) = "8"
                      /\ ops[i].arg = TEMP_RPU_ORIGINAL
                      /\ \A j \in OpIndexes : ops[j].kind # "convert-rpu"
                      /\ \E j \in 1..(i - 1) :
                            /\ ops[j].kind = "extract-rpu"
                            /\ ops[j].ok
                            /\ ops[j].out = ops[i].arg

\* C7 witness: EncodeStrategy has injected the converted RPU of a profile 7
\* source and returned
C7_Witness ==
    /\ flow = "strategy"
    /\ strategy = "UnifiedEncode"
    /\ ProfileStr(config.dv_profile) = "7"
    /\ \E i \in OpIndexes :
          /\ ops[i].kind = "inject-rpu" /\ ops[i].ok
          /\ ops[i].arg = TEMP_RPU_CONVERTED_P8
    /\ outcome = "success"

\* the temp files declared for cleanup: files_to_cleanup of
\* run_full_conversion, temp_files of a strategy object
DeclaredTempFiles ==
    IF InRunFullConversion THEN Range(files_to_cleanup) ELSE Range(temp_files)

\* the temp paths the issued operations read or write
TouchedTempFiles ==
    UNION {ops[i].ins \cup {ops[i].out} : i \in OpIndexes} \ {SOURCE, FINAL}

\* C8: when the planned operations have all run, the temp files declared for
\* cleanup are exactly the temp paths those operations read or wrote: no
\* declared file is untouched by every operation and no temp file an
\* operation touched is missing from the declaration.
C8_DeclaredEqualsTouched ==
    outcome = "success" => DeclaredTempFiles = TouchedTempFiles

\* position of an operation in the pipeline: audio extraction, subtitle
\* extraction, the video path, the final mkvmerge
Stage(kind) ==
    CASE kind = "extract-audio" -> 1
      [] kind = "extract-sub" -> 2
      [] kind = "mux" -> 4
      [] OTHER -> 3

\* C9: the operations of one file are issued in pipeline order and fail fast:
\* an operation that exited non-zero is the last operation of the run (no
\* later operation, the final mkvmerge included, is issued), and no operation
\* is issued a second time.
C9_FailFastInOrder ==
    /\ \A i \in OpIndexes : ~ops[i].ok => i = Len(ops)
    /\ \A i, j \in OpIndexes :
          i < j => /\ Stage(ops[i].kind) <= Stage(ops[j].kind)
                   /\ ops[i].out # ops[j].out
    /\ \A i \in OpIndexes : ops[i].kind = "mux" => i = Len(ops)

\* C9 witness: the ffmpeg encode of a unified encode run failed after two
\* successful operations, and the run ended there
C9_Witness ==
    /\ InRunFullConversion
    /\ pc = "done"
    /\ Len(ops) >= 3
    /\ ops[Len(ops)].kind = "encode" /\ ~ops[Len(ops)].ok
    /\ \A i \in 1..(Len(ops) - 1) : ops[i].ok

\* C10: a planning error (no video stream in the config) or a failed external
\* tool inside run_full_conversion or a strategy is never swallowed: under
\* every cleanup policy the call ends as failed, after the cleanup handling,
\* and a run that is reported as a success had no error and no failed tool.
C10_ErrorsReraised ==
    /\ (pc = "done" /\ error # "none") => outcome = "failed"
    /\ outcome = "success" =>
          /\ error = "none"
          /\ \A i \in OpIndexes : ops[i].ok
          /\ config.video_stream.present
    /\ (\E i \in OpIndexes : ~ops[i].ok) => error = "CalledProcessError"
    /\ (pc = "done" /\ outcome # "skipped" /\ ~config.video_stream.present
          /\ \A i \in OpIndexes : ops[i].ok) =>
          error = "ValueError"

\* C10 witness: a planning error under the 'always' policy: the cleanup ran
\* and the call still failed
C10_Witness ==
    /\ flow = "call"
    /\ config.final_cleanup_policy = "always"
    /\ error = "ValueError"
    /\ Len(cleanup_arg) = 1
    /\ pc = "done"
    /\ outcome = "failed"

\* C11: when the final output path exists as run_full_conversion starts, the
\* run is a benign skip: it returns without an error, issues no operation,
\* creates and registers no temp file, deletes nothing and leaves the output
\* file in place; and a run never goes past its start while the output file
\* exists.
C11_ExistingOutputSkipped ==
    /\ outcome = "skipped" =>
          /\ pc = "done"
          /\ error = "none"
          /\ ops = <<>>
          /\ fs = {SOURCE, FINAL}
          /\ files_to_cleanup = <<>>
          /\ deleted = <<>>
          /\ cleanup_arg = <<>>
    /\ (InRunFullConversion /\ FINAL \in fs
          /\ \A i \in OpIndexes : ops[i].kind # "mux") =>
          (pc \in {"configure", "rfc_start"} \/ outcome = "skipped")

\* C11 witness: run_full_conversion was called directly with a config whose
\* output file exists, and returned
C11_Witness ==
    /\ flow = "call"
    /\ outcome = "skipped"
    /\ pc = "done"
    /\ FINAL \in fs

\* a failure of the current file is in flight at the batch boundary
FailureAtBatchBoundary ==
    \/ pc = "batch_except"
    \/ pc = "done" /\ outcome = "failed"

\* C12: in batch mode a failure while probing, configuring or converting one
\* file is caught at the batch boundary: the step that follows it adds one
\* to the failure count and moves to the next file; the counters always add
\* up to the number of files the loop is done with, the loop is never stuck
\* before its end, and it ends only when every file has been processed.
C12_BatchContinuesAfterFailure ==
    /\ [](/\ success_count + fail_count = file_index
          /\ file_index <= n_files
          /\ (pc = "batch_done" <=> file_index = n_files)
          /\ (pc # "batch_done" => ENABLED NextBatchLoop))
    /\ [][FailureAtBatchBoundary =>
             /\ fail_count' = fail_count + 1
             /\ success_count' = success_count
             /\ file_index' = file_index + 1
             /\ pc' = IF file_index' < n_files
                      THEN "batch_probe" ELSE "batch_done"]_vars
    /\ [][fail_count' # fail_count =>
             /\ fail_count' = fail_count + 1
             /\ file_index' = file_index + 1]_vars

\* C12 witness: the first file of the batch failed in its conversion and the
\* second one has been converted
C12_Witness ==
    /\ file_index = 1
    /\ fail_count = 1
    /\ success_count = 0
    /\ pc = "done"
    /\ outcome = "success"

\* run_full_conversion has failed and its error handling is over
FailedRun == InRunFullConversion /\ pc = "done" /\ outcome = "failed"

\* the temp files of the run that are on disk
TempFilesOnDisk == fs \ {SOURCE, FINAL}

\* C13: after a pipeline failure no temp file is left on disk when the final
\* cleanup policy is 'always', and no cleanup pass is run (the temp files are
\* kept) when the policy is 'never' or 'ask'.
C13_FailureCleanupByPolicy ==
    FailedRun =>
        /\ config.final_cleanup_policy = "always" => TempFilesOnDisk = {}
        /\ config.final_cleanup_policy \in {"never", "ask"} =>
              cleanup_arg = <<>>

\* C14: when the Profile 5 check has overridden the requested policy, the
\* final filename of a configured run carries the tags of the policy the
\* run now has (passthrough, video untouched): the tags the naming step
\* writes for the overridden config, not those of the requested encode or
\* convert policy.
C14_OverrideReachesNaming ==
    (flow \in {"batch", "main"} /\ Resolved /\ override_needed) =>
        config.final_filename = generate_plex_friendly_name(config)

\* the run has been asked to encode a non-HEVC source that carries DV or
\* HDR10+ dynamic metadata
EncodeOfNonHevcWithMetadata ==
    /\ config.video_stream.present
    /\ config.video_policy = "encode"
    /\ ~IsHevc(config.video_stream.codec_name)
    /\ config.has_dv \/ config.has_hdr10plus

\* C15: an encode of a non-HEVC source with DV and/or HDR10+ is routed to
\* SimpleEncode and the codec/metadata combination is no error: no other
\* strategy is selected, no ValueError is raised, and the video stage issues
\* a plain encode only.
C15_NonHevcMetadataEncodeIsSimple ==
    EncodeOfNonHevcWithMetadata =>
        /\ strategy \in {"none", "SimpleEncode"}
        /\ error # "ValueError"
        /\ \A i \in OpIndexes :
              ops[i].kind \in {"extract-audio", "extract-sub", "encode", "mux"}

\* the operations of the video stage: everything but the track extractions
\* and the final mux
VideoOps ==
    SelectSeq(ops, LAMBDA c : c.kind \notin {"extract-audio", "extract-sub",
                                             "mux"})

\* the stream index as ffmpeg's -map argument names it
MapArgOfIndex == <<"0", "1">>

\* C16: whenever SimpleEncode is selected the video stage is one operation:
\* a single encode that reads the source container and maps the chosen video
\* stream index. No raw extraction, RPU or HDR10+ operation is issued, and a
\* run that succeeds has issued exactly that one encode.
C16_SimpleEncodeIsOneEncode ==
    strategy = "SimpleEncode" =>
        /\ Len(VideoOps) <= 1
        /\ \A i \in 1..Len(VideoOps) :
              /\ VideoOps[i].kind = "encode"
              /\ VideoOps[i].ins = {SOURCE}
              /\ VideoOps[i].arg = MapArgOfIndex[config.video_stream.index + 1]
        /\ outcome = "success" => Len(VideoOps) = 1

\* C16 witness: run_full_conversion encoded an H.264 source without Dolby
\* Vision or HDR10+: SimpleEncode, one encode of the second stream of the
\* source, and the run succeeded
C16_Witness ==
    /\ flow = "batch"
    /\ strategy = "SimpleEncode"
    /\ outcome = "success"
    /\ config.video_stream.codec_name = "h264"
    /\ ~config.has_dv /\ ~config.has_hdr10plus
    /\ config.video_stream.index = 1
    /\ Len(VideoOps) = 1
    /\ VideoOps[1].arg = "1"

\* the DV operation the hybrid chain owes the request: the conversion when
\* convert7_to_8 is requested (through either config key) on a profile 7
\* source, otherwise the removal when drop is requested and DV is present
HybridDvKind ==
    IF /\ \/ config.dv_policy = "convert7_to_8"
          \/ Truthy(config.passthrough_convert_dv_to_p8)
       /\ ProfileStr(config.dv_profile) = "7"
    THEN <<"dv-convert">>
    ELSE IF config.dv_policy = "drop" /\ config.has_dv
         THEN <<"dv-remove">>
         ELSE <<>>

\* the operations the hybrid chain owes the request, in order
HybridKinds ==
    <<"extract-raw">> \o HybridDvKind \o
    (IF config.hdr10plus_policy = "drop" /\ config.has_hdr10plus
     THEN <<"hdr10plus-remove">> ELSE <<>>)

\* the video file handed to the muxer
VideoResultPath ==
    IF flow = "strategy" THEN result.video_input ELSE video_input_for_mux

\* C17: in HybridPassthrough the video operations are issued in the order
\* extract raw stream, at most one DV operation (convert for convert7_to_8
\* on profile 7, else remove for drop with DV present), HDR10+ removal iff
\* drop is requested and HDR10+ is present; the first reads the source, each
\* later one reads the output of the one before it, only the last issued
\* operation can have failed, and a run that succeeded issued all of them and
\* hands over the output of the last.
C17_HybridChainOrder ==
    strategy = "HybridPassthrough" =>
        /\ Len(VideoOps) <= Len(HybridKinds)
        /\ \A i \in 1..Len(VideoOps) :
              /\ VideoOps[i].kind = HybridKinds[i]
              /\ VideoOps[i].ins =
                     IF i = 1 THEN {SOURCE} ELSE {VideoOps[i - 1].out}
              /\ i < Len(VideoOps) => VideoOps[i].ok
        /\ outcome = "success" =>
              /\ Len(VideoOps) = Len(HybridKinds)
              /\ VideoResultPath = VideoOps[Len(VideoOps)].out

\* C17 witness: PassthroughStrategy finished the hybrid chain of a source
\* with HDR10+ and no DV under hdr10plus drop: extract-raw, then
\* remove-HDR10+ reading the raw stream, and nothing else
C17_Witness ==
    /\ flow = "strategy"
    /\ strategy = "HybridPassthrough"
    /\ ~config.has_dv /\ config.has_hdr10plus
    /\ config.hdr10plus_policy = "drop"
    /\ outcome = "success"
    /\ Len(ops) = 2
    /\ ops[1].kind = "extract-raw"
    /\ ops[2].kind = "hdr10plus-remove"
    /\ ops[2].ins = {TEMP_VIDEO_RAW}
    /\ result.video_input = TEMP_VIDEO_NO_HDR10PLUS

\* the kinds of the video operations issued so far, in order
VideoKinds == [i \in 1..Len(VideoOps) |-> VideoOps[i].kind]

\* the UnifiedEncode run re-injects Dolby Vision: run_full_conversion's
\* unified workflow always does, EncodeStrategy does under Step 3a
UnifiedReinjectsDv ==
    /\ strategy = "UnifiedEncode"
    /\ flow = "strategy" => ReinjectsRpu(config)

\* C18: in every UnifiedEncode run that re-injects Dolby Vision the
\* extract-RPU operation is issued before the encode operation, and an HEVC
\* profile 7 source without HDR10+ under {encode, keep} is processed as
\* extract-raw, extract-RPU, encode, convert-RPU, inject-RPU.
C18_RpuExtractedBeforeEncode ==
    UnifiedReinjectsDv =>
        /\ \A j \in 1..Len(VideoOps) :
              VideoOps[j].kind = "encode" =>
                  \E i \in 1..(j - 1) : VideoOps[i].kind = "extract-rpu"
        /\ ( /\ outcome = "success"
             /\ ProfileStr(config.dv_profile) = "7"
             /\ ~config.has_hdr10plus
             /\ config.dv_policy \in {"keep", None} ) =>
              VideoKinds = <<"extract-raw", "extract-rpu", "encode",
                             "convert-rpu", "inject-rpu">>

\* C19: the effective policy is resolved before any external operation of
\* the run: while run_full_conversion has not passed its Profile 5 step, no
\* mkvextract, ffmpeg or dovi_tool operation has been issued and no temp
\* artifact has been generated from the requested policy.
C19_ResolvedBeforeAnyOperation ==
    (InRunFullConversion /\ ~Resolved) =>
        /\ ops = <<>>
        /\ hdr_tags_xml_path = None
        /\ TempFilesOnDisk = {}

\* HDR10+ is present and its policy is keep
Hdr10PlusKept == config.has_hdr10plus /\ config.hdr10plus_policy = "keep"

\* the chain operations (encode, RPU injection) issued before operation j
ChainOpsBefore(j) ==
    {i \in 1..(j - 1) : ops[i].kind \in {"encode", "inject-rpu"}}

\* the largest element of a non-empty set of indexes
Last(S) == CHOOSE m \in S : \A i \in S : i <= m

\* C20: in UnifiedEncode with HDR10+ present and kept, the HDR10+ metadata
\* is extracted from the raw stream the first operation extracted from the
\* source, never from the encoder's output; it is injected into the current
\* output of the chain (the RPU injection's if there is one, else the
\* encode's), no RPU injection follows it, and a run that succeeded returns
\* the output of the HDR10+ injection. With the policy drop, or HDR10+
\* absent, no HDR10+ operation is issued.
C20_Hdr10PlusFromRawIntoChain ==
    strategy = "UnifiedEncode" =>
        IF Hdr10PlusKept
        THEN /\ \A j \in OpIndexes :
                   ops[j].kind = "hdr10plus-extract" =>
                       /\ ops[1].kind = "extract-raw"
                       /\ ops[j].ins = {ops[1].out}
                       /\ \A i \in ChainOpsBefore(j) :
                             ops[i].out \notin ops[j].ins
             /\ \A j \in OpIndexes :
                   ops[j].kind = "hdr10plus-inject" =>
                       /\ ChainOpsBefore(j) # {}
                       /\ \E e \in 1..(j - 1) :
                             /\ ops[e].kind = "hdr10plus-extract"
                             /\ ops[j].ins =
                                    {ops[Last(ChainOpsBefore(j))].out,
                                     ops[e].out}
                       /\ \A k \in OpIndexes :
                             k > j => ops[k].kind # "inject-rpu"
             /\ outcome = "success" =>
                   /\ ops[Len(ops)].kind = "hdr10plus-inject"
                   /\ result.video_input = ops[Len(ops)].out
        ELSE \A j \in OpIndexes :
                 ops[j].kind \notin {"hdr10plus-extract", "hdr10plus-inject",
                                     "hdr10plus-remove"}

\* C20 witness: EncodeStrategy finished a profile 7 HEVC source with HDR10+,
\* both kept: the HDR10+ metadata was read from the raw stream and injected
\* into the output of the RPU injection, and that file is the result
C20_Witness ==
    /\ flow = "strategy"
    /\ strategy = "UnifiedEncode"
    /\ Hdr10PlusKept
    /\ ReinjectsRpu(config)
    /\ outcome = "success"
    /\ Len(ops) = 7
    /\ ops[5].kind = "inject-rpu"
    /\ ops[6].kind = "hdr10plus-extract"
    /\ ops[6].ins = {TEMP_VIDEO_RAW}
    /\ ops[7].kind = "hdr10plus-inject"
    /\ ops[7].ins = {TEMP_VIDEO_FINAL_DV, TEMP_HDR10PLUS_JSON}
    /\ result.video_input = TEMP_VIDEO_WITH_HDR10PLUS

\* the files that hold a raw elementary HEVC stream
RawElementaryFiles ==
    {TEMP_VIDEO_RAW, TEMP_VIDEO_FINAL_DV, TEMP_VIDEO_CONVERTED_HEVC,
     TEMP_VIDEO_P8, TEMP_VIDEO_NO_DV, TEMP_VIDEO_NO_HDR10PLUS,
     TEMP_VIDEO_WITH_HDR10PLUS, TEMP_VIDEO_EXTRACTED_HDR}

\* the stream selector that goes with the video handed to the muxer
VideoResultSelector ==
    IF flow = "strategy" THEN result.map_str
    ELSE MuxVideoSelector(config.video_policy, map_str_for_mux)

\* C21: for every strategy result, a raw elementary stream handed to the
\* muxer (HybridPassthrough, UnifiedEncode, SimpleEncode) has the synthetic
\* selector "0" and the kind raw elementary, and the original container
\* (PurePassthrough) has the original video stream index as selector, the
\* source file as path and the kind container.
C21_ResultSelectorAndKind ==
    (outcome = "success" /\ strategy \in Strategies) =>
        IF strategy = "PurePassthrough"
        THEN /\ VideoResultPath = SOURCE
             /\ VideoResultSelector = IndexStr(config.video_stream.index)
             /\ flow = "strategy" => result.input_type = "mkv_container"
        ELSE /\ VideoResultPath \in RawElementaryFiles
             /\ VideoResultSelector = "0"
             /\ flow = "strategy" => result.input_type = "raw_hevc"

\* C22: encoder parameters and passthrough exclude each other: whenever the
\* video policy of the config is passthrough, requested so or forced by the
\* Profile 5 override, the config carries no encoder parameters.
C22_PassthroughHasNoEncoderParams ==
    config.video_policy = "passthrough" => config.encoder_params = "empty"

\* the temp artifacts of the video pipeline that a later operation of the
\* pipeline has read
ConsumedVideoArtifacts ==
    {VideoOps[i].out : i \in {k \in 1..Len(VideoOps) :
        \E j \in (k + 1)..Len(VideoOps) : VideoOps[k].out \in VideoOps[j].ins}}

\* C23: with auto_cleanup set, every temp artifact a video pipeline created
\* and consumed has been deleted on its own, before the final bulk cleanup,
\* by the time the pipeline has succeeded; with auto_cleanup not set, no
\* temp artifact is deleted before the final bulk cleanup pass.
C23_AutoCleanupAfterLastConsumer ==
    /\ ~config.auto_cleanup_temp_video => deleted = <<>>
    /\ (config.auto_cleanup_temp_video /\ outcome = "success") =>
          ConsumedVideoArtifacts \subseteq Range(deleted)

\* the operation is the mkvextract of the raw video stream from the source
IsRawExtraction(c) ==
    c.tool = "mkvextract" /\ c.kind = "extract-raw" /\ c.ins = {SOURCE}

\* C24 as stated: for HybridPassthrough, UnifiedEncode and SimpleEncode the
\* first operation of the video pipeline is the mkvextract extraction of the
\* raw elementary video stream.
C24_RawExtractionFirstForAllButPure ==
    (strategy \in Strategies \ {"PurePassthrough"} /\ VideoOps # <<>>) =>
        IsRawExtraction(VideoOps[1])

\* C24 amended: for HybridPassthrough and UnifiedEncode the first operation
\* of the video pipeline is the mkvextract extraction of the raw elementary
\* video stream, and a run that succeeded has issued it; SimpleEncode and
\* PurePassthrough issue no extraction at all.
C24_RawExtractionFirstForChains ==
    /\ strategy \in {"HybridPassthrough", "UnifiedEncode"} =>
          /\ VideoOps # <<>> => IsRawExtraction(VideoOps[1])
          /\ outcome = "success" => VideoOps # <<>>
    /\ strategy \in {"SimpleEncode", "PurePassthrough"} =>
          \A i \in 1..Len(VideoOps) :
              /\ VideoOps[i].tool # "mkvextract"
              /\ VideoOps[i].kind # "extract-raw"

\* C24 witness: run_full_conversion in its unified workflow has extracted
\* the raw stream first and gone on to the next operation
C24_Witness ==
    /\ InRunFullConversion
    /\ strategy = "UnifiedEncode"
    /\ Len(VideoOps) >= 2
    /\ IsRawExtraction(VideoOps[1])
    /\ VideoOps[2].kind = "extract-rpu"

\* the last operation issued is a mkvmerge that succeeded
MuxSucceeded ==
    ops # <<>> /\ ops[Len(ops)].kind = "mux" /\ ops[Len(ops)].ok

\* C25: cleanup is best-effort: after a bulk cleanup pass of
\* run_full_conversion every listed file still on disk is one whose deletion
\* failed and was warned about (the other files of the list were still
\* attempted and are gone), no deletion failure is raised, and the run ends
\* as it would have without it: success iff mkvmerge succeeded, otherwise
\* the original error re-raised.
C25_CleanupBestEffort ==
    (InRunFullConversion /\ pc = "done" /\ cleanup_arg # <<>>) =>
        /\ fs \cap Range(cleanup_arg[Len(cleanup_arg)])
              \subseteq delete_warnings
        /\ error \in {"none", "CalledProcessError", "ValueError"}
        /\ outcome = "success" <=> (MuxSucceeded /\ error = "none")
        /\ outcome = "failed" <=> (~MuxSucceeded /\ error # "none")

\* C25 witness: a run succeeded although the first file of its cleanup list
\* could not be deleted; the second file of the list, which an operation
\* had written, was deleted all the same
C25_Witness ==
    /\ InRunFullConversion /\ pc = "done" /\ outcome = "success"
    /\ Len(cleanup_arg) = 1
    /\ Len(cleanup_arg[1]) >= 2
    /\ delete_warnings = {cleanup_arg[1][1]}
    /\ cleanup_arg[1][1] \in fs
    /\ cleanup_arg[1][2] \notin fs
    /\ \E i \in OpIndexes : ops[i].ok /\ ops[i].out = cleanup_arg[1][2]

\* the mkvmerge invocations issued so far
MuxOps == {i \in OpIndexes : ops[i].kind = "mux"}

\* the track paths of one kind in selection order: the extracted internal
\* tracks, then the external files
SelectionOrder(n_internal, n_external, Internal(_), External(_)) ==
    [k \in 1..(n_internal + n_external) |->
        IF k <= n_internal THEN Internal(k) ELSE External(k - n_internal)]

\* the tracks are the selected ones in order, the one at the default index
\* is the only one flagged default
FlaggedInOrder(tracks, order, default_index) ==
    /\ Len(tracks) = Len(order)
    /\ \A k \in 1..Len(tracks) :
          /\ tracks[k].path = order[k]
          /\ tracks[k].default = "yes" <=> k - 1 = default_index
          /\ tracks[k].default \in {"yes", "no"}
    /\ Cardinality({k \in 1..Len(tracks) : tracks[k].default = "yes"}) <= 1
    /\ default_index = -1 =>
          \A k \in 1..Len(tracks) : tracks[k].default = "no"

\* C26: the final container is produced by a single mkvmerge invocation;
\* its audio tracks and its subtitle tracks are the selected ones in
\* selection order, internal before external, and for each kind the track
\* at the configured default index is flagged default=yes and every other
\* one default=no: at most one default per kind, none when the index is -1.
C26_SingleMuxDefaultFlags ==
    /\ Cardinality(MuxOps) <= 1
    /\ outcome = "success" => Cardinality(MuxOps) = 1
    /\ \A i \in MuxOps :
          /\ ops[i].tool = "mkvmerge" /\ ops[i].out = FINAL
          /\ FlaggedInOrder(ops[i].audio,
                 SelectionOrder(config.n_audio, config.n_ext_audio,
                                TempAudio, ExtAudio),
                 config.default_audio_index)
          /\ FlaggedInOrder(ops[i].subs,
                 SelectionOrder(config.n_subs, config.n_ext_subs,
                                TempSub, ExtSub),
                 config.default_subtitle_index)

\* C26 witness: a run muxed two internal audio tracks and one external one
\* with the external one as the default, and two subtitle tracks with none
\* as the default, and succeeded
C26_Witness ==
    /\ outcome = "success"
    /\ config.n_audio = 2 /\ config.n_ext_audio = 1
    /\ config.default_audio_index = 2
    /\ config.n_subs = 1 /\ config.n_ext_subs = 1
    /\ config.default_subtitle_index = -1
    /\ \E i \in MuxOps :
          /\ Len(ops[i].audio) = 3
          /\ ops[i].audio[3] = [path |-> ExtAudio(1), default |-> "yes"]
          /\ ops[i].audio[1].default = "no" /\ ops[i].audio[2].default = "no"
          /\ Len(ops[i].subs) = 2

\* the files immediate auto-cleanup (skasuj_plik) has deleted
AutoDeleted == Range(deleted)

\* C27: immediate auto-cleanup never removes a file that is still needed:
\* the video file handed to the muxer is never among the files deleted by
\* auto-cleanup, and no operation is issued that reads a file auto-cleanup
\* had deleted before.
C27_AutoCleanupKeepsNeededFiles ==
    /\ [](VideoResultPath \notin AutoDeleted)
    /\ [][Len(ops') = Len(ops) + 1 =>
             ops'[Len(ops')].ins \cap AutoDeleted = {}]_vars

\* C27 witness: EncodeStrategy, under auto cleanup, deleted the original
\* RPU, the editor JSON and the HDR10+ JSON on the way and the raw stream at
\* the end, and returned the output of the HDR10+ injection
C27_Witness ==
    /\ flow = "strategy"
    /\ config.auto_cleanup_temp_video
    /\ outcome = "success"
    /\ Len(ops) = 7
    /\ AutoDeleted = {TEMP_RPU_ORIGINAL, TEMP_EDITOR_JSON,
                      TEMP_HDR10PLUS_JSON, TEMP_VIDEO_RAW}
    /\ result.video_input = TEMP_VIDEO_WITH_HDR10PLUS
    /\ result.video_input \in fs

\* the files of a run that are no temp artifact
ProtectedFiles == {SOURCE, FINAL}

\* C28: no list a run builds for bulk cleanup (files_to_cleanup, the
\* strategies' temp_files, every list handed to sprzataj_pliki, the fallback
\* list included) names the source file or the final output file, and a bulk
\* cleanup pass removes only files of the list it was handed, so never one
\* of those two.
C28_CleanupSparesSourceAndOutput ==
    /\ [](/\ Range(files_to_cleanup) \cap ProtectedFiles = {}
          /\ Range(temp_files) \cap ProtectedFiles = {}
          /\ \A i \in 1..Len(cleanup_arg) :
                Range(cleanup_arg[i]) \cap ProtectedFiles = {})
    /\ [][Len(cleanup_arg') = Len(cleanup_arg) + 1 =>
             /\ (fs \ fs') \cap ProtectedFiles = {}
             /\ (fs \ fs') \subseteq
                    Range(cleanup_arg'[Len(cleanup_arg')])]_vars

\* C28 witness: a run failed before any file was registered, the policy is
\* 'always', and the fallback list was handed to bulk cleanup while the
\* source is still on disk
C28_Witness ==
    /\ FailedRun
    /\ config.final_cleanup_policy = "always"
    /\ files_to_cleanup = FallbackCleanupList
    /\ cleanup_arg = <<FallbackCleanupList>>
    /\ SOURCE \in fs

\* the call of run_full_conversion has returned or raised
RunOver == InRunFullConversion /\ pc = "done"

\* the output already existed: nothing was run and nothing was cleaned up
EndedSkipped ==
    /\ outcome = "skipped"
    /\ error = "none"
    /\ ops = <<>>
    /\ cleanup_arg = <<>>

\* mkvmerge completed and was the last external operation
EndedSucceeded ==
    /\ outcome = "success"
    /\ error = "none"
    /\ MuxSucceeded

\* an error was re-raised: mkvmerge has not completed
EndedFailed ==
    /\ outcome = "failed"
    /\ error # "none"
    /\ ~MuxSucceeded

\* C29: when every external operation and prompt returns, every invocation
\* of run_full_conversion terminates, and it ends skipped (output already
\* there, nothing run), succeeded (mkvmerge completed as the last external
\* operation) or failed (error re-raised); bulk cleanup is run at most once
\* per invocation and mkvmerge is issued at most once.
C29_TerminatesInOneOfThreeOutcomes ==
    /\ [](InRunFullConversion => <>RunOver)
    /\ [](RunOver => EndedSkipped \/ EndedSucceeded \/ EndedFailed)
    /\ [](InRunFullConversion =>
             /\ Len(cleanup_arg) <= 1
             /\ Cardinality(MuxOps) <= 1)

\* C29 witness: a run that went through extraction, the video stage, the
\* one mkvmerge and the one bulk cleanup, and ended succeeded
C29_Witness ==
    /\ RunOver
    /\ EndedSucceeded
    /\ Cardinality(MuxOps) = 1
    /\ Len(cleanup_arg) = 1
    /\ Len(ops) >= 4

\* the number of files the batch loop is done with
FilesHandled == file_index

\* C30: in batch processing every discovered file is counted exactly once:
\* the two counters always add up to the number of files already handled, a
\* step either leaves the counters alone or finishes the current file, adding
\* one to exactly one counter (to success_count only after its conversion
\* returned), and when the loop is over the sum is the number of discovered
\* files.
C30_EveryFileCountedOnce ==
    /\ [](/\ success_count + fail_count = FilesHandled
          /\ FilesHandled \in 0..n_files
          /\ (pc = "batch_done" => success_count + fail_count = n_files))
    /\ [][\/ /\ file_index' = file_index
             /\ success_count' = success_count
             /\ fail_count' = fail_count
          \/ /\ file_index' = file_index + 1
             /\ \/ /\ success_count' = success_count + 1
                   /\ fail_count' = fail_count
                   /\ pc = "done"
                   /\ outcome \in {"success", "skipped"}
                \/ /\ success_count' = success_count
                   /\ fail_count' = fail_count + 1]_vars

\* C30 witness: a batch of two files is over, one file was converted or
\* skipped and the other one failed
C30_Witness ==
    /\ pc = "batch_done"
    /\ n_files = 2
    /\ FilesHandled = 2
    /\ success_count = 1
    /\ fail_count = 1

====
